---- MODULE Spec2Model ----
(***************************************************************************)
(* Verification model of shelver: the build Coordinator                    *)
(* (shelver/build/coordinator.py), the part of the Watcher and Builder it  *)
(* drives (shelver/build/watcher.py, shelver/build/builder.py), the        *)
(* Registry lookups it performs (shelver/registry.py) and the Archive      *)
(* cache (shelver/archive/base.py, shelver/archive/file_lock.py).          *)
(*                                                                         *)
(* The event loop is single threaded: every action below is one step of a  *)
(* task between two suspension points, or one scheduled callback.          *)
(***************************************************************************)
EXTENDS Integers, Sequences, FiniteSets, TLC

\* ------------------------------------------------------------------------
\* Bounds of the model
\* ------------------------------------------------------------------------
MaxFuturesPerKey == 2
MaxMaxBuilds == 1
MaxResults == 1
MaxCallers == 3
MaxLines == 3
MaxCancels == 3
MaxCalls == 3
MaxWriters == 3
DataLen == 3
MaxArchives == 2
MaxSignals == 3

\* Calls of Builder.get_build_tmp_dir, one per build
MaxBuilderCalls == 3

\* ------------------------------------------------------------------------
\* Images, versions, artifacts (shelver/image.py, shelver/test/conftest.py)
\* ------------------------------------------------------------------------
Images == {"fedora", "server", "web"}

NoVersion == 0

CurrentVersion(image) ==
    CASE image = "fedora" -> 25
      [] image = "server" -> 2
      [] OTHER -> 1

NoBase == <<"", NoVersion>>

\* Image.base_with_version: (name, version) of the base, (None, None) without
\* a base, (name, None) without a pinned version.
base_with_version(catalog, image) == catalog[image]

ConftestCatalog ==
    [fedora |-> NoBase, server |-> <<"fedora", NoVersion>>, web |-> <<"server", 1>>]

ChainCatalog ==
    [fedora |-> NoBase, server |-> <<"fedora", NoVersion>>, web |-> <<"server", NoVersion>>]

SharedCatalog ==
    [fedora |-> <<"vpn", NoVersion>>, server |-> <<"fedora", NoVersion>>,
     web |-> <<"fedora", NoVersion>>]

Catalogs == {ConftestCatalog, ChainCatalog, SharedCatalog}

\* The keys of builds: every image at its current version, and every base
\* that a catalog pins to a version.
Keys ==
    {<<i, CurrentVersion(i)>> : i \in Images}
        \cup {b \in UNION {{c[i] : i \in Images} : c \in Catalogs} :
                 b[1] \in Images /\ b[2] # NoVersion}

\* The runs explored: a catalog, whether its builds copy their artifact to
\* regions other than the provider's, the artifacts the provider already
\* has, and the calls get_or_run_build(image, version) the caller makes
\* (NoVersion: the version argument left out).
Scenarios ==
    { [catalog |-> ConftestCatalog, regions |-> FALSE, versions |-> {}, artifacts |-> {},
       requested |-> {<<"web", NoVersion>>, <<"fedora", 25>>}],
      [catalog |-> ConftestCatalog, regions |-> FALSE,
       versions |-> {<<"server", 1>>, <<"fedora", 25>>}, artifacts |-> {},
       requested |-> {<<"web", 1>>, <<"server", NoVersion>>}],
      [catalog |-> ChainCatalog, regions |-> FALSE, versions |-> {}, artifacts |-> {},
       requested |-> {<<"web", NoVersion>>, <<"web", 1>>}],
      [catalog |-> ConftestCatalog, regions |-> TRUE, versions |-> {}, artifacts |-> {},
       requested |-> {<<"server", NoVersion>>}],
      [catalog |-> SharedCatalog, regions |-> FALSE, versions |-> {}, artifacts |-> {"vpn"},
       requested |-> {<<"server", NoVersion>>, <<"web", 1>>}],
      [catalog |-> SharedCatalog, regions |-> FALSE, versions |-> {}, artifacts |-> {},
       requested |-> {<<"server", 2>>}] }

NoArtifact == <<>>

ManagedArtifact(image, version) == <<image, version>>

ExternalArtifact(name) == <<name, NoVersion>>

\* ------------------------------------------------------------------------
\* Errors (shelver/errors.py)
\* ------------------------------------------------------------------------
ShelverErrors == {"ShelverError", "ConfigurationError", "UnknownArtifactError",
                  "UnknownImageError", "PackerError"}

IsShelverError(e) == e \in ShelverErrors

DefaultMaxBuilds == 999

\* A future is named by its key and by how many futures were created for
\* that key before it.
FutIds == {<<k[1], k[2], n>> : k \in Keys, n \in 1..MaxFuturesPerKey}

NoFuture == <<>>

VARIABLES
    catalog,        \* registry.images: image -> base_with_version
    regions,        \* TRUE when the builds also copy their artifact to other regions
    max_builds,     \* the max_builds argument of Coordinator (0: unset)
    versions,       \* Registry._versions: the (image, version) with an artifact
    artifacts,      \* Registry._artifacts: the unmanaged names registered
    stopping,       \* Coordinator.stopping
    builds,         \* Coordinator._builds: key -> future (NoFuture: absent)
    pending,        \* Coordinator._pending
    build_counter,  \* value of Coordinator._build_counter
    all_finished,   \* Coordinator._all_finished: <<>> or <<snapshot of builds>>
    requested,      \* the calls of get_or_run_build the caller makes
    tasks,          \* one record per Build Future (the task of _run_build)
    holding,        \* futures between build_counter.acquire() and release()
    run_all,        \* the task of Coordinator.run_all
    last_call,      \* what get_or_run_build gave, when the step was an outside call
    entry,          \* the cache directory's entry for the archive's path (an inode)
    lock_ex,        \* inode -> the caller whose open file holds LOCK_EX (0: nobody)
    lock_sh,        \* inode -> the callers whose open file holds LOCK_SH
    callers,        \* one record per call of Archive.get_or_build
    build_calls,    \* how many times Archive.build was invoked
    proc,           \* the builder process that Watcher.run is given
    stdout,         \* the lines the process wrote on stdout, and how many were read
    watcher,        \* the Watcher and the task of Watcher.run
    parser,         \* the loop of Watcher.handle_stdout over given output
    registry,       \* a Registry: its indexes and the latest call made on it
    graph,          \* a call of check_cycles or topological_sort and what it gave
    flock,          \* a file, its flock holder, and the writers that lock it
    git,            \* the GitArchive objects of one Builder and their builds
    merge,          \* a call of deep_merge and what it gave
    template,       \* a call of Builder.process_template and what it gave
    supervisor,     \* an AsyncLoopSupervisor, its loop and the supervised task
    builder         \* a Builder: its temporary directory and the calls on it

coordVars == <<catalog, regions, max_builds, versions, artifacts, stopping, builds, pending,
               build_counter, all_finished, requested, tasks, holding, run_all,
               last_call>>

archVars == <<entry, lock_ex, lock_sh, callers, build_calls>>

watchVars == <<proc, stdout, watcher>>

pureVars == <<parser, registry, graph, flock>>

utilVars == <<git, merge, template, supervisor, builder>>

vars == <<coordVars, archVars, watchVars, pureVars, utilVars>>

\* ------------------------------------------------------------------------
\* Build Futures
\* ------------------------------------------------------------------------
\* pc of a Build Future:
\*   none        not created
\*   start       created by ensure_future, _run_build not entered yet
\*   await_base  suspended in _get_base_artifact on the base's future
\*   acquire     at build_counter.acquire()
\*   watch       inside builder.run_build, no signal sent: preparing the
\*               build, or in Watcher.run at the first gather
\*   watch2      Watcher.run, second gather (SIGINT sent)
\*   kill        Watcher.run, SIGKILL sent, at proc.wait()
\*   register    run_build returned, loading the artifacts of the results
\*   done        the future is terminal (outcome tells how)
NoTask ==
    [key |-> <<>>, pc |-> "none", outcome |-> "pending", result |-> <<>>,
     must_cancel |-> FALSE, cancel_calls |-> 0, waiting_on |-> NoFuture,
     base_artifact |-> NoArtifact, ran |-> 0, finish_cb |-> FALSE,
     called |-> <<>>]

NewTask(k) == [NoTask EXCEPT !.key = k, !.pc = "start"]

Done(f) == tasks[f].pc = "done"

Created(f) == tasks[f].pc # "none"

InRunner(f) == tasks[f].pc \in {"watch", "watch2", "kill"}

\* asyncio.BoundedSemaphore(max_builds or 999)
EffectiveMaxBuilds(mb) == IF mb = 0 THEN DefaultMaxBuilds ELSE mb

\* The terminal record of a future: result list on success, else the error.
Finished(t, outcome, result) ==
    [t EXCEPT !.pc = "done", !.outcome = outcome, !.result = result,
              !.must_cancel = FALSE, !.cancel_calls = 0, !.waiting_on = NoFuture]

\* Task.cancel(): a task suspended on another task hands the request to it;
\* otherwise the request is delivered at the task's next step. A done task
\* ignores it.
Forwards(f) ==
    /\ tasks[f].pc = "await_base"
    /\ ~Done(tasks[f].waiting_on)

RECURSIVE CancelPath(_)
CancelPath(f) ==
    IF ~Created(f) \/ Done(f) THEN {}
    ELSE IF Forwards(f) THEN {f} \cup CancelPath(tasks[f].waiting_on)
    ELSE {f}

\* f.cancel() for every f of the set S, within one step of the event loop
CancelAll(S) ==
    [x \in FutIds |->
        LET n == Cardinality({f \in S : x \in CancelPath(f)})
        IN  [tasks[x] EXCEPT !.cancel_calls = @ + n,
                             !.must_cancel = @ \/ (n > 0 /\ ~Forwards(x))]]

\* ------------------------------------------------------------------------
\* Registry lookups and base resolution
\* ------------------------------------------------------------------------
Resolved(artifact) == [kind |-> "artifact", artifact |-> artifact, key |-> <<>>, error |-> ""]

NeedsBuild(k) == [kind |-> "build", artifact |-> NoArtifact, key |-> k, error |-> ""]

Failed(e) == [kind |-> "error", artifact |-> NoArtifact, key |-> <<>>, error |-> e]

\* Registry.get_artifact(name): UnknownArtifactError is raised with one
\* argument where its __init__ takes two, so the lookup of a missing name
\* ends in a TypeError.
get_artifact(name) ==
    IF name \in artifacts THEN Resolved(ExternalArtifact(name)) ELSE Failed("TypeError")

\* (a base resolution that never looks at the registered versions)
ResolveBaseAlwaysBuilds(image) ==
    LET b == base_with_version(catalog, image)
    IN  IF b[1] = "" THEN Resolved(NoArtifact)
        ELSE NeedsBuild(<<b[1], IF b[2] = NoVersion THEN CurrentVersion(b[1]) ELSE b[2]>>)

\* Coordinator._get_base_artifact up to the point where it either has the
\* artifact, fails, or has to wait for the build of key k.
ResolveBase(image) ==
    LET b == base_with_version(catalog, image)
        base_name == b[1]
        base_version == IF b[2] = NoVersion /\ base_name \in Images
                        THEN CurrentVersion(base_name) ELSE b[2]
    IN  IF base_name = "" THEN Resolved(NoArtifact)
        ELSE IF base_name \in Images
             THEN IF <<base_name, base_version>> \in versions
                  THEN Resolved(ManagedArtifact(base_name, base_version))
                  ELSE NeedsBuild(<<base_name, base_version>>)
             ELSE get_artifact(base_name)

\* _run_build lines 73-77: a ShelverError, or a CancelledError, that leaves
\* _get_base_artifact is replaced by ShelverError('Build for base image ...
\* failed'); any other exception goes through.
BaseFailed(e) == IF e = "cancelled" \/ IsShelverError(e) THEN "ShelverError" ELSE e

\* Coordinator._get_base_artifact after the base's future g (for key k) is
\* done, with the wrapping of _run_build lines 73-77: a ShelverError or a
\* CancelledError becomes ShelverError, anything else propagates.
AfterBaseBuild(g, k) ==
    LET oc == tasks[g].outcome
    IN  IF oc # "success" THEN Failed(BaseFailed(oc))
        ELSE IF Len(tasks[g].result) = 1 THEN Resolved(tasks[g].result[1])
        ELSE IF k \in versions THEN Resolved(ManagedArtifact(k[1], k[2]))
        ELSE Failed("ShelverError")

\* (a lookup that never finds the key)
HasBuildNever(k) == FALSE

\* The KeyError branch of get_or_run_build is taken when the key is absent.
HasBuild(k) == builds[k] # NoFuture

\* ensure_future(self._run_build(image, version)): a new future
FuturesOf(k) == {f \in FutIds : f[1] = k[1] /\ f[2] = k[2] /\ tasks[f].pc # "none"}

NewFuture(k) == <<k[1], k[2], Cardinality(FuturesOf(k)) + 1>>

\* ------------------------------------------------------------------------
\* Coordinator.get_or_run_build called from outside (the cli, a test)
\* ------------------------------------------------------------------------
NoCall == [image |-> "", version |-> NoVersion, future |-> NoFuture, error |-> ""]

RequestedVersions(image) == {NoVersion, CurrentVersion(image)}

\* (a get_or_run_build that schedules whatever stopping is)
get_or_run_build_while_stopping(image, version) ==
    LET k == <<image, IF version = NoVersion THEN CurrentVersion(image) ELSE version>>
    IN  IF HasBuild(k)
        THEN /\ last_call' = [image |-> image, version |-> version, future |-> builds[k],
                              error |-> ""]
             /\ UNCHANGED <<builds, pending, tasks>>
        ELSE /\ NewFuture(k) \in FutIds
             /\ tasks' = [tasks EXCEPT ![NewFuture(k)] = NewTask(k)]
             /\ pending' = pending \cup {NewFuture(k)}
             /\ builds' = [builds EXCEPT ![k] = NewFuture(k)]
             /\ last_call' = [image |-> image, version |-> version,
                              future |-> NewFuture(k), error |-> ""]

get_or_run_build(image, version) ==
    LET v == IF version = NoVersion THEN CurrentVersion(image) ELSE version
        k == <<image, v>>
    IN  IF HasBuild(k)
        THEN /\ last_call' = [image |-> image, version |-> version, future |-> builds[k],
                              error |-> ""]
             /\ UNCHANGED <<builds, pending, tasks>>
        ELSE IF stopping
        THEN /\ last_call' = [image |-> image, version |-> version, future |-> NoFuture,
                              error |-> "InvalidStateError"]
             /\ UNCHANGED <<builds, pending, tasks>>
        ELSE /\ NewFuture(k) \in FutIds
             /\ tasks' = [tasks EXCEPT ![NewFuture(k)] = NewTask(k)]
             /\ pending' = pending \cup {NewFuture(k)}
             /\ builds' = [builds EXCEPT ![k] = NewFuture(k)]
             /\ last_call' = [image |-> image, version |-> version,
                              future |-> NewFuture(k), error |-> ""]

GetOrRunBuild(image, version) ==
    /\ <<image, version>> \in requested
    /\ get_or_run_build(image, version)
    /\ UNCHANGED <<catalog, regions, requested, max_builds, versions, artifacts, stopping, build_counter,
                   all_finished, holding, run_all>>
    /\ UNCHANGED <<archVars, watchVars, pureVars, utilVars>>

\* ------------------------------------------------------------------------
\* Coordinator._run_build, one action per step of the task
\* ------------------------------------------------------------------------
\* The step after the base artifact is known: go and take a build slot.
ToAcquire(f, artifact) ==
    [tasks EXCEPT ![f] = [@ EXCEPT !.pc = "acquire", !.base_artifact = artifact,
                                   !.waiting_on = NoFuture]]

ToDone(f, outcome) == [tasks EXCEPT ![f] = Finished(@, outcome, <<>>)]

\* (a version check that lets every version through)
VersionMismatchNever(image, version) == FALSE

\* Lines 62-64: a version was given and it is not the current one.
VersionMismatch(image, version) ==
    version # NoVersion /\ version # CurrentVersion(image)

\* First step of the task: version check, then _get_base_artifact until it
\* returns, raises or suspends on the base's future.
RunBuildStart(f) ==
    /\ tasks[f].pc = "start"
    /\ LET image == tasks[f].key[1]
           version == tasks[f].key[2]
           r == ResolveBase(image)
       IN  IF tasks[f].must_cancel
           THEN tasks' = ToDone(f, "cancelled") /\ UNCHANGED <<builds, pending>>
           ELSE IF VersionMismatch(image, version)
           THEN tasks' = ToDone(f, "ConfigurationError")
                /\ UNCHANGED <<builds, pending>>
           ELSE IF r.kind = "artifact"
           THEN tasks' = ToAcquire(f, r.artifact) /\ UNCHANGED <<builds, pending>>
           ELSE IF r.kind = "error"
           THEN tasks' = ToDone(f, BaseFailed(r.error)) /\ UNCHANGED <<builds, pending>>
           ELSE IF HasBuild(r.key)
           THEN LET g == builds[r.key]
                    a == AfterBaseBuild(g, r.key)
                IN  /\ tasks' = IF ~Done(g)
                                THEN [tasks EXCEPT ![f] = [@ EXCEPT !.pc = "await_base",
                                                                    !.waiting_on = g]]
                                ELSE IF a.kind = "artifact" THEN ToAcquire(f, a.artifact)
                                ELSE ToDone(f, a.error)
                    /\ UNCHANGED <<builds, pending>>
           ELSE IF stopping
           THEN tasks' = ToDone(f, "InvalidStateError")
                /\ UNCHANGED <<builds, pending>>
           ELSE /\ NewFuture(r.key) \in FutIds
                /\ tasks' = [tasks EXCEPT ![NewFuture(r.key)] = NewTask(r.key),
                                          ![f] = [@ EXCEPT !.pc = "await_base",
                                                           !.waiting_on = NewFuture(r.key)]]
                /\ pending' = pending \cup {NewFuture(r.key)}
                /\ builds' = [builds EXCEPT ![r.key] = NewFuture(r.key)]
    /\ UNCHANGED <<catalog, regions, requested, max_builds, versions, artifacts, stopping,
                   all_finished, run_all>>
    /\ last_call' = NoCall
    /\ UNCHANGED <<archVars, watchVars, pureVars, utilVars>>

\* (a build that takes its slot before it resolves its base)
TaskStartHoldingSlot(f) ==
    /\ RunBuildStart(f)
    /\ build_counter > 0
    /\ build_counter' = build_counter - 1
    /\ holding' = holding \cup {f}

\* The slot is not touched before the base artifact is known (lines 70-79).
TaskStart(f) ==
    /\ RunBuildStart(f)
    /\ UNCHANGED <<build_counter, holding>>

\* The task wakes up from the base's future.
BaseDone(f) ==
    /\ tasks[f].pc = "await_base"
    /\ Done(tasks[f].waiting_on)
    /\ LET g == tasks[f].waiting_on
           a == AfterBaseBuild(g, tasks[g].key)
       IN  tasks' = IF tasks[f].must_cancel THEN ToDone(f, "ShelverError")
                    ELSE IF a.kind = "artifact" THEN ToAcquire(f, a.artifact)
                    ELSE ToDone(f, a.error)
    /\ UNCHANGED <<catalog, regions, requested, max_builds, versions, artifacts, stopping, builds, pending,
                   build_counter, all_finished, holding, run_all>>
    /\ last_call' = NoCall
    /\ UNCHANGED <<archVars, watchVars, pureVars, utilVars>>

\* (a build that does not wait for a free slot)
AcquireSlotNoWait(f) ==
    /\ tasks[f].pc = "acquire"
    /\ IF tasks[f].must_cancel
       THEN /\ tasks' = [tasks EXCEPT ![f] = Finished(@, "cancelled", <<>>)]
            /\ UNCHANGED <<build_counter, holding>>
       ELSE /\ build_counter' = build_counter - 1
            /\ holding' = holding \cup {f}
            /\ tasks' = [tasks EXCEPT ![f] = [@ EXCEPT !.pc = "watch", !.ran = @ + 1]]
    /\ UNCHANGED <<catalog, regions, requested, max_builds, versions, artifacts, stopping, builds,
                   pending, all_finished, run_all>>
    /\ last_call' = NoCall
    /\ UNCHANGED <<archVars, watchVars, pureVars, utilVars>>

\* build_counter.acquire() (line 79) and the call of builder.run_build; a
\* cancellation that arrives while the task waits for a slot ends it before
\* the try block, so nothing is released.
AcquireSlot(f) ==
    /\ tasks[f].pc = "acquire"
    /\ IF tasks[f].must_cancel
       THEN /\ tasks' = ToDone(f, "cancelled")
            /\ UNCHANGED <<build_counter, holding>>
       ELSE /\ build_counter > 0
            /\ build_counter' = build_counter - 1
            /\ holding' = holding \cup {f}
            /\ tasks' = [tasks EXCEPT ![f] = [@ EXCEPT !.pc = "watch", !.ran = @ + 1]]
    /\ UNCHANGED <<catalog, regions, requested, max_builds, versions, artifacts, stopping, builds, pending,
                   all_finished, run_all>>
    /\ last_call' = NoCall
    /\ UNCHANGED <<archVars, watchVars, pureVars, utilVars>>

\* (a finally clause that does not give the slot back)
ReleaseSlotNever(f) ==
    UNCHANGED <<build_counter, holding>>

\* The finally clause of line 85.
ReleaseSlot(f) ==
    /\ build_counter' = build_counter + 1
    /\ holding' = holding \ {f}

\* Builder.run_build before the subprocess exists (log file, archive,
\* template, spawn) suspends several times: an error there, or a
\* cancellation, leaves through the finally of _run_build. So does an
\* exception that is not a PackerError leaving Watcher.run, at either gather
\* (a stdout line whose handling raises, a signal sent to a process that is
\* gone); OSError stands for all of them.
RunnerFailed(f) ==
    /\ tasks[f].pc \in {"watch", "watch2"}
    /\ tasks' = ToDone(f, IF tasks[f].pc = "watch" /\ tasks[f].must_cancel THEN "cancelled"
                          ELSE "OSError")
    /\ ReleaseSlot(f)
    /\ UNCHANGED <<catalog, regions, requested, max_builds, versions, artifacts, stopping, builds, pending,
                   all_finished, run_all>>
    /\ last_call' = NoCall
    /\ UNCHANGED <<archVars, watchVars, pureVars, utilVars>>

\* (a watcher that kills on the first cancellation)
WatcherCancelledKills(f) ==
    /\ tasks[f].pc \in {"watch", "watch2"}
    /\ tasks[f].must_cancel
    /\ tasks' = [tasks EXCEPT ![f] = [@ EXCEPT !.pc = "kill", !.must_cancel = FALSE]]
    /\ UNCHANGED <<catalog, regions, requested, max_builds, versions, artifacts, stopping, builds,
                   pending, build_counter, all_finished, holding, run_all>>
    /\ last_call' = NoCall
    /\ UNCHANGED <<archVars, watchVars, pureVars, utilVars>>

\* Watcher.run: a CancelledError at the first gather sends SIGINT and waits
\* again; one at the second gather sends SIGKILL and waits for the process.
WatcherCancelled(f) ==
    /\ tasks[f].pc \in {"watch", "watch2"}
    /\ tasks[f].must_cancel
    /\ tasks' = [tasks EXCEPT ![f] =
                    IF @.pc = "watch"
                    THEN [@ EXCEPT !.pc = "watch2", !.must_cancel = FALSE]
                    ELSE [@ EXCEPT !.pc = "kill", !.must_cancel = FALSE]]
    /\ UNCHANGED <<catalog, regions, requested, max_builds, versions, artifacts, stopping, builds, pending,
                   build_counter, all_finished, holding, run_all>>
    /\ last_call' = NoCall
    /\ UNCHANGED <<archVars, watchVars, pureVars, utilVars>>

\* The subprocess exits and both pipes reach end of file: Watcher.run returns
\* the artifacts on exit code 0 and raises PackerError otherwise.
WatcherExit(f, ret) ==
    /\ tasks[f].pc \in {"watch", "watch2"}
    /\ ~tasks[f].must_cancel
    /\ tasks' = IF ret # 0 THEN ToDone(f, "PackerError")
                ELSE [tasks EXCEPT ![f] = [@ EXCEPT !.pc = "register"]]
    /\ ReleaseSlot(f)
    /\ UNCHANGED <<catalog, regions, requested, max_builds, versions, artifacts, stopping, builds, pending,
                   all_finished, run_all>>
    /\ last_call' = NoCall
    /\ UNCHANGED <<archVars, watchVars, pureVars, utilVars>>

\* After SIGKILL: proc.wait() returns and the CancelledError is re-raised (a
\* further cancellation ends the wait the same way).
WatcherKilled(f) ==
    /\ tasks[f].pc = "kill"
    /\ tasks' = ToDone(f, "cancelled")
    /\ ReleaseSlot(f)
    /\ UNCHANGED <<catalog, regions, requested, max_builds, versions, artifacts, stopping, builds, pending,
                   all_finished, run_all>>
    /\ last_call' = NoCall
    /\ UNCHANGED <<archVars, watchVars, pureVars, utilVars>>

\* Lines 87-99: each result is loaded with registry.load_artifact_by_id.
\*   ok            the artifact of the image and version that was built; it
\*                 is registered and associated, unless that version already
\*                 has an artifact (ValueError, logged and skipped)
\*   other_region  a copy in another region, for which
\*                 AmazonRegistry.load_artifact_by_id returns None
\*   malformed     no id (KeyError), or an id that does not parse (ValueError)
ResultKinds == IF regions THEN {"ok", "other_region", "malformed"} ELSE {"ok", "malformed"}

ResultLists == UNION {[1..n -> ResultKinds] : n \in 0..MaxResults}

RECURSIVE LoadResults(_, _, _, _)
LoadResults(results, k, loaded, vers) ==
    IF results = <<>> THEN [artifacts |-> loaded, versions |-> vers]
    ELSE LET r == Head(results)
         IN  IF r = "ok" /\ k \notin vers
             THEN LoadResults(Tail(results), k, Append(loaded, ManagedArtifact(k[1], k[2])),
                              vers \cup {k})
             ELSE IF r = "other_region"
             THEN LoadResults(Tail(results), k, Append(loaded, NoArtifact), vers)
             ELSE LoadResults(Tail(results), k, loaded, vers)

\* A cancellation that arrives while a load is suspended ends the task after
\* the results loaded so far.
RegisterResults(f, results) ==
    /\ tasks[f].pc = "register"
    /\ LET l == LoadResults(results, tasks[f].key, <<>>, versions)
       IN  /\ versions' = l.versions
           /\ tasks' = IF tasks[f].must_cancel
                       THEN ToDone(f, "cancelled")
                       ELSE [tasks EXCEPT ![f] = Finished(@, "success", l.artifacts)]
    /\ UNCHANGED <<catalog, regions, requested, max_builds, artifacts, stopping, builds, pending,
                   build_counter, all_finished, holding, run_all>>
    /\ last_call' = NoCall
    /\ UNCHANGED <<archVars, watchVars, pureVars, utilVars>>

\* Coordinator._on_build_finish, the done callback of every Build Future
on_build_finish(f) ==
    IF all_finished # <<>>
    THEN UNCHANGED <<pending, all_finished>>
    ELSE /\ pending' = pending \ {f}
         /\ all_finished' = IF pending' = {} THEN <<builds>> ELSE all_finished

\* Lines 120-128: get_or_run_build adds _on_build_finish to the new future and
\* then partial(fn, image, version) for the subscriber of cli.py:153, version
\* being the one the key was made of. A call is recorded with its arguments.
Call(fn, args) == [fn |-> fn, args |-> args]

DoneCallbacksSubscriberFirst(f) ==
    <<Call("build_done", <<tasks[f].key[1], tasks[f].key[2], f>>),
      Call("_on_build_finish", <<f>>)>>

DoneCallbacks(f) ==
    <<Call("_on_build_finish", <<f>>),
      Call("build_done", <<tasks[f].key[1], tasks[f].key[2], f>>)>>

\* The done callbacks of a terminal future: the loop was given them one after
\* the other, in the order they were added, so they run one after the other.
OnBuildFinish(f) ==
    /\ Done(f)
    /\ ~tasks[f].finish_cb
    /\ on_build_finish(f)
    /\ tasks' = [tasks EXCEPT ![f] = [@ EXCEPT !.finish_cb = TRUE,
                                              !.called = @ \o DoneCallbacks(f)]]
    /\ UNCHANGED <<catalog, regions, requested, max_builds, versions, artifacts, stopping, builds,
                   build_counter, holding, run_all>>
    /\ last_call' = NoCall
    /\ UNCHANGED <<archVars, watchVars, pureVars, utilVars>>

\* ------------------------------------------------------------------------
\* Coordinator.run_all
\* ------------------------------------------------------------------------
\* pc: idle (not called), wait (at shield(all_finished)), grace (at
\* wait_for(gather(*pending), cancel_timeout)), returned, raised.
\* cancelled: the task of run_all was cancelled once; forced: it was
\* cancelled a second time or cancel_timeout expired.
\* gathered: the futures of _pending handed to gather.
RunAllIdle ==
    [pc |-> "idle", gathered |-> {}, cancelled |-> FALSE, forced |-> FALSE]

Returned(r) == [r EXCEPT !.pc = "returned", !.gathered = {}]

Raised(r) == [r EXCEPT !.pc = "raised", !.gathered = {}]

\* run_all is called: shield(all_finished) of a future that is already done
\* does not suspend.
RunAllStart ==
    /\ run_all.pc = "idle"
    /\ run_all' = IF all_finished # <<>> THEN Returned(run_all)
                  ELSE [run_all EXCEPT !.pc = "wait"]
    /\ UNCHANGED <<catalog, regions, requested, max_builds, versions, artifacts, stopping, builds, pending,
                   build_counter, all_finished, tasks, holding>>
    /\ last_call' = NoCall
    /\ UNCHANGED <<archVars, watchVars, pureVars, utilVars>>

RunAllFinished ==
    /\ run_all.pc = "wait"
    /\ all_finished # <<>>
    /\ run_all' = Returned(run_all)
    /\ UNCHANGED <<catalog, regions, requested, max_builds, versions, artifacts, stopping, builds, pending,
                   build_counter, all_finished, tasks, holding>>
    /\ last_call' = NoCall
    /\ UNCHANGED <<archVars, watchVars, pureVars, utilVars>>

\* Lines 141-155: the first cancellation of the task of run_all.
RunAllCancelled ==
    /\ run_all.pc = "wait"
    /\ tasks' = CancelAll(pending)
    /\ stopping' = TRUE
    /\ run_all' = [run_all EXCEPT !.pc = "grace", !.cancelled = TRUE,
                                  !.gathered = pending]
    /\ UNCHANGED <<catalog, regions, requested, max_builds, versions, artifacts, builds, pending,
                   build_counter, all_finished, holding>>
    /\ last_call' = NoCall
    /\ UNCHANGED <<archVars, watchVars, pureVars, utilVars>>

\* gather(*pending) without return_exceptions is done as soon as one of its
\* futures fails or is cancelled, or when all have succeeded.
GatherFailures == {f \in run_all.gathered : Done(f) /\ tasks[f].outcome # "success"}

GatherDone ==
    \/ GatherFailures # {}
    \/ \A f \in run_all.gathered : Done(f)

RunAllGathered ==
    /\ run_all.pc = "grace"
    /\ GatherDone
    /\ run_all' = IF GatherFailures = {} THEN Returned(run_all) ELSE Raised(run_all)
    /\ UNCHANGED <<catalog, regions, requested, max_builds, versions, artifacts, stopping, builds, pending,
                   build_counter, all_finished, tasks, holding>>
    /\ last_call' = NoCall
    /\ UNCHANGED <<archVars, watchVars, pureVars, utilVars>>

\* wait_for: a second cancellation of run_all, or the expiry of
\* cancel_timeout, cancels the gather (every future of it that is not done)
\* and raises at once.
RunAllForced ==
    /\ run_all.pc = "grace"
    /\ tasks' = IF GatherDone THEN tasks ELSE CancelAll(run_all.gathered)
    /\ run_all' = [Raised(run_all) EXCEPT !.forced = TRUE]
    /\ UNCHANGED <<catalog, regions, requested, max_builds, versions, artifacts, stopping, builds, pending,
                   build_counter, all_finished, holding>>
    /\ last_call' = NoCall
    /\ UNCHANGED <<archVars, watchVars, pureVars, utilVars>>

\* ------------------------------------------------------------------------
\* Archive.get_or_build (shelver/archive/base.py) over FileLock
\* (shelver/archive/file_lock.py)
\* ------------------------------------------------------------------------
\* Every caller is a task with an Archive of its own for the same repository
\* and revision (Builder.build_archive makes one per build), so all of them
\* compute the same path in the cache directory. The executor has more
\* workers than there are callers, so a flock that can be granted is granted;
\* the workers run beside the event loop, in no fixed order.
Callers == 1..MaxCallers

CachePath == "cache/repo-rev.tar.xz"

\* Inodes: 0 stands for no file; caller c's open(path, 'x') makes the empty
\* file Placeholder(c); its build() writes the archive Built(c) in tmp_dir;
\* Cached is an archive a former run left in the cache.
NoEntry == 0

Placeholder(c) == c

Built(c) == MaxCallers + c

Cached == 2 * MaxCallers + 1

Inodes == 1..Cached

Content(i) == IF i \in {Placeholder(c) : c \in Callers} THEN "empty" ELSE "complete"

\* What is at the archive's path
Observed(e) == IF e = NoEntry THEN "missing" ELSE Content(e)

\* pc of a caller:
\*   idle      get_or_build not called
\*   open      at open(path, 'x'), after basename()
\*   lock_ex   flock(LOCK_EX) handed to the executor
\*   build     LOCK_EX held, build() not called yet
\*   move      build() returned, shutil.move handed to the executor
\*   moved     shutil.move done, the task not resumed yet
\*   lock_sh   flock(LOCK_SH) handed to the executor
\*   sh_held   LOCK_SH granted, the task not resumed yet
\*   returned  get_or_build returned ret
NoCaller ==
    [pc |-> "idle", file |-> NoEntry, branch |-> "", ret |-> "", seen |-> "",
     path |-> "", failed |-> FALSE]

\* `self._path = path; return path` (lines 96-97): the caller leaves with the
\* path, whatever is there at that moment.
Return(r, e) ==
    [r EXCEPT !.pc = "returned", !.file = NoEntry, !.ret = CachePath, !.path = CachePath,
              !.seen = Observed(e)]

\* Lines 61-65
GetOrBuild(c) ==
    /\ callers[c].pc = "idle"
    /\ callers' = [callers EXCEPT ![c] =
                      IF @.path # "" THEN [@ EXCEPT !.pc = "returned", !.ret = @.path]
                      ELSE [@ EXCEPT !.pc = "open"]]
    /\ UNCHANGED <<entry, lock_ex, lock_sh, build_calls>>
    /\ UNCHANGED <<coordVars, watchVars, pureVars, utilVars>>

\* (an open that creates or truncates, mode 'w')
OpenTruncating(c) ==
    /\ callers[c].pc = "open"
    /\ entry' = Placeholder(c)
    /\ callers' = [callers EXCEPT ![c] = [@ EXCEPT !.pc = "lock_ex", !.branch = "created",
                                                   !.file = Placeholder(c)]]
    /\ UNCHANGED <<lock_ex, lock_sh, build_calls>>
    /\ UNCHANGED <<coordVars, watchVars, pureVars, utilVars>>

\* Line 71, open(path, 'x'): the file is created and flock(LOCK_EX) is handed
\* to the executor (line 73); or FileExistsError, and then in the same step
\* the existing file is opened and flock(LOCK_SH) is handed to the executor
\* (lines 83-90).
Open(c) ==
    /\ callers[c].pc = "open"
    /\ IF entry = NoEntry
       THEN /\ entry' = Placeholder(c)
            /\ callers' = [callers EXCEPT ![c] = [@ EXCEPT !.pc = "lock_ex",
                                                           !.branch = "created",
                                                           !.file = Placeholder(c)]]
       ELSE /\ UNCHANGED entry
            /\ callers' = [callers EXCEPT ![c] = [@ EXCEPT !.pc = "lock_sh",
                                                           !.branch = "exists",
                                                           !.file = entry]]
    /\ UNCHANGED <<lock_ex, lock_sh, build_calls>>
    /\ UNCHANGED <<coordVars, watchVars, pureVars, utilVars>>

\* fcntl.flock(file, LOCK_EX) returns in the executor once no other open
\* file of the inode holds a lock.
FlockExclusive(c) ==
    /\ callers[c].pc = "lock_ex"
    /\ lock_ex[callers[c].file] = 0
    /\ lock_sh[callers[c].file] = {}
    /\ lock_ex' = [lock_ex EXCEPT ![callers[c].file] = c]
    /\ callers' = [callers EXCEPT ![c] = [@ EXCEPT !.pc = "build"]]
    /\ UNCHANGED <<entry, lock_sh, build_calls>>
    /\ UNCHANGED <<coordVars, watchVars, pureVars, utilVars>>

\* Line 75: build() is called. When it fails, the finally releases the lock,
\* `except Exception` unlinks the path, and get_or_build goes on to lines
\* 96-97.
Build(c, ok) ==
    /\ callers[c].pc = "build"
    /\ build_calls' = build_calls + 1
    /\ IF ok
       THEN /\ callers' = [callers EXCEPT ![c] = [@ EXCEPT !.pc = "move"]]
            /\ UNCHANGED <<entry, lock_ex>>
       ELSE /\ lock_ex' = [lock_ex EXCEPT ![callers[c].file] = 0]
            /\ entry' = NoEntry
            /\ callers' = [callers EXCEPT ![c] = [Return(@, entry') EXCEPT !.failed = TRUE]]
    /\ UNCHANGED lock_sh
    /\ UNCHANGED <<coordVars, watchVars, pureVars, utilVars>>

\* Lines 76-78: shutil.move(tmp_archive, path) in the executor; tmp_dir and
\* cache_dir are on one filesystem, so it is a rename over the path.
Move(c) ==
    /\ callers[c].pc = "move"
    /\ entry' = Built(c)
    /\ callers' = [callers EXCEPT ![c] = [@ EXCEPT !.pc = "moved"]]
    /\ UNCHANGED <<lock_ex, lock_sh, build_calls>>
    /\ UNCHANGED <<coordVars, watchVars, pureVars, utilVars>>

\* Lines 80-82 and 96-97: the producer releases the lock and returns.
ReturnBuilt(c) ==
    /\ callers[c].pc = "moved"
    /\ lock_ex' = [lock_ex EXCEPT ![callers[c].file] = 0]
    /\ callers' = [callers EXCEPT ![c] = Return(@, entry)]
    /\ UNCHANGED <<entry, lock_sh, build_calls>>
    /\ UNCHANGED <<coordVars, watchVars, pureVars, utilVars>>

\* fcntl.flock(file, LOCK_SH) returns in the executor once no other open
\* file of the inode holds LOCK_EX.
FlockShared(c) ==
    /\ callers[c].pc = "lock_sh"
    /\ lock_ex[callers[c].file] = 0
    /\ lock_sh' = [lock_sh EXCEPT ![callers[c].file] = @ \cup {c}]
    /\ callers' = [callers EXCEPT ![c] = [@ EXCEPT !.pc = "sh_held"]]
    /\ UNCHANGED <<entry, lock_ex, build_calls>>
    /\ UNCHANGED <<coordVars, watchVars, pureVars, utilVars>>

\* Lines 91 and 96-97: the reader releases the lock and returns.
ReturnCached(c) ==
    /\ callers[c].pc = "sh_held"
    /\ lock_sh' = [lock_sh EXCEPT ![callers[c].file] = @ \ {c}]
    /\ callers' = [callers EXCEPT ![c] = Return(@, entry)]
    /\ UNCHANGED <<entry, lock_ex, build_calls>>
    /\ UNCHANGED <<coordVars, watchVars, pureVars, utilVars>>

\* No call of get_or_build is under way and the cache holds e.
ArchiveInit(e) ==
    /\ entry = e
    /\ lock_ex = [i \in Inodes |-> 0]
    /\ lock_sh = [i \in Inodes |-> {}]
    /\ callers = [c \in Callers |-> NoCaller]
    /\ build_calls = 0

\* ------------------------------------------------------------------------
\* Watcher.run and Watcher.handle_stdout (shelver/build/watcher.py) over the
\* builder process that Builder.run_build spawns
\* ------------------------------------------------------------------------
\* A value of an artifact line is a sequence of characters.
Values == {<<"r", ":", "a", ":", "b">>, <<"a">>}

NoValue == <<>>

Indexes == {0, 1}

\* A stdout line as _parse_line gives it: its type (ui also stands for a
\* line that does not parse, both are only forwarded), and for an artifact
\* line the INDEX, KEY and VALUE of its data.
Lines ==
    {[type |-> "ui", index |-> 0, key |-> "", value |-> NoValue],
     [type |-> "error", index |-> 0, key |-> "", value |-> NoValue]}
        \cup {[type |-> "artifact", index |-> i, key |-> "id", value |-> v] :
                 i \in Indexes, v \in Values}
        \cup {[type |-> "artifact", index |-> i, key |-> "end", value |-> NoValue] :
                 i \in Indexes}

RECURSIVE Find(_, _, _)
Find(s, ch, i) ==
    IF i > Len(s) THEN 0 ELSE IF s[i] = ch THEN i ELSE Find(s, ch, i + 1)

\* value.split(':', 1)
Split(value) ==
    LET i == Find(value, ":", 1)
    IN  IF i = 0 THEN <<value>>
        ELSE <<SubSeq(value, 1, i - 1), SubSeq(value, i + 1, Len(value))>>

\* An entry of Watcher.artifacts; {} has no field set.
EmptyMapping == [region |-> NoValue, id |-> NoValue]

\* while i >= len(self.artifacts): self.artifacts.append({})
RECURSIVE Extend(_, _)
Extend(arts, i) ==
    IF i >= Len(arts) THEN Extend(Append(arts, EmptyMapping), i) ELSE arts

CanceledBySignal == <<"Canceled by signal", 0>>

\* The data of the error line that is the n-th line of stdout
ErrorData(n) == <<"error", n>>

\* One turn of the loop of handle_stdout on the n-th line. An id whose value
\* has no ':' does not unpack into region and id: ValueError, which ends
\* handle_stdout and with it the gather io.
handle_stdout(w, line, n) ==
    IF line.type = "ui" THEN w
    ELSE IF line.type = "error" THEN [w EXCEPT !.errors = Append(@, ErrorData(n))]
    ELSE LET arts == Extend(w.artifacts, line.index)
             parts == Split(line.value)
         IN  IF line.key # "id" THEN [w EXCEPT !.artifacts = arts]
             ELSE IF Len(parts) = 2
             THEN [w EXCEPT !.artifacts =
                      [arts EXCEPT ![line.index + 1] = [region |-> parts[1], id |-> parts[2]]]]
             ELSE [w EXCEPT !.artifacts = arts, !.io = "failed"]

\* The exit codes of a builder that ends by itself, and of one that SIGKILL
\* ended.
ExitCodes == {0, 1}

KilledCode == -9

\* pc of Watcher.run:
\*   idle      not called
\*   gather1   at gather(shield(io), proc.wait())
\*   gather2   at gather(io, proc.wait()), after SIGINT
\*   kill      at proc.wait(), after SIGKILL
\*   returned, raised
\* io: the future of gather(handle_stdout, handle_stderr): none, pending,
\* done, failed (a handler raised), cancelled.
\* signals: the calls of _send_signal; cancels: the calls of cancel() on the
\* task; delivered: the CancelledErrors thrown into run; waited: proc.wait()
\* gave run the exit code, ret.
NoResult == [kind |-> "none", exitcode |-> 0, errors |-> <<>>, artifacts |-> <<>>]

NoWatcher ==
    [pc |-> "idle", io |-> "none", errors |-> <<>>, artifacts |-> <<>>, signals |-> <<>>,
     must_cancel |-> FALSE, cancels |-> 0, delivered |-> 0, waited |-> FALSE, ret |-> 0,
     result |-> NoResult]

Raise(w, error) == [w EXCEPT !.pc = "raised", !.result = [NoResult EXCEPT !.kind = error]]

\* (a run that gives the artifacts whatever the exit code)
FinishIgnoringRet(w) ==
    [w EXCEPT !.pc = "returned",
              !.result = [NoResult EXCEPT !.kind = "returned", !.artifacts = w.artifacts]]

\* Lines 152-155
Finish(w) ==
    IF w.ret # 0
    THEN [w EXCEPT !.pc = "raised",
                   !.result = [NoResult EXCEPT !.kind = "PackerError", !.exitcode = w.ret,
                                               !.errors = w.errors]]
    ELSE [w EXCEPT !.pc = "returned",
                   !.result = [NoResult EXCEPT !.kind = "returned", !.artifacts = w.artifacts]]

\* Lines 125-136: run is called and suspends at the first gather.
WatcherRun ==
    /\ watcher.pc = "idle"
    /\ watcher' = [watcher EXCEPT !.pc = "gather1", !.io = "pending"]
    /\ UNCHANGED <<proc, stdout>>
    /\ UNCHANGED <<coordVars, archVars, pureVars, utilVars>>

\* The builder writes a line on stdout.
ProcWrite(line) ==
    /\ proc.state = "running"
    /\ Len(stdout.written) < MaxLines
    /\ stdout' = [stdout EXCEPT !.written = Append(@, line)]
    /\ UNCHANGED <<proc, watcher>>
    /\ UNCHANGED <<coordVars, archVars, pureVars, utilVars>>

\* The builder exits, by itself or from SIGKILL; its pipes are closed.
ProcExit(code) ==
    /\ proc.state = "running"
    /\ code = KilledCode <=> proc.killed
    /\ proc' = [proc EXCEPT !.state = "exited", !.returncode = code]
    /\ UNCHANGED <<stdout, watcher>>
    /\ UNCHANGED <<coordVars, archVars, pureVars, utilVars>>

\* handle_stdout reads the next line (lines 64-106).
HandleStdout ==
    /\ watcher.io = "pending"
    /\ stdout.read < Len(stdout.written)
    /\ watcher' = handle_stdout(watcher, stdout.written[stdout.read + 1], stdout.read + 1)
    /\ stdout' = [stdout EXCEPT !.read = @ + 1]
    /\ UNCHANGED proc
    /\ UNCHANGED <<coordVars, archVars, pureVars, utilVars>>

\* Both handlers read the end of their stream (lines 66-67, 112-113).
IoEof ==
    /\ watcher.io = "pending"
    /\ stdout.read = Len(stdout.written)
    /\ proc.state = "exited"
    /\ watcher' = [watcher EXCEPT !.io = "done"]
    /\ UNCHANGED <<proc, stdout>>
    /\ UNCHANGED <<coordVars, archVars, pureVars, utilVars>>

\* cancel() is called on the task that runs Watcher.run (the Build Future).
Cancel ==
    /\ watcher.pc \in {"gather1", "gather2", "kill"}
    /\ watcher.cancels < MaxCancels
    /\ watcher' = [watcher EXCEPT !.must_cancel = TRUE, !.cancels = @ + 1]
    /\ UNCHANGED <<proc, stdout>>
    /\ UNCHANGED <<coordVars, archVars, pureVars, utilVars>>

\* The CancelledError reaches run (lines 137-150). proc.send_signal on a
\* process that has exited either does nothing or, once the transport of the
\* process is closed, raises ProcessLookupError (lookup_error). proc.wait()
\* on a process that has exited returns without suspending.
RunCancelled(lookup_error) ==
    /\ watcher.must_cancel
    /\ lookup_error => (proc.state = "exited" /\ watcher.pc # "kill")
    /\ LET w == [watcher EXCEPT !.must_cancel = FALSE, !.delivered = @ + 1]
           w1 == [w EXCEPT !.errors = Append(@, CanceledBySignal),
                           !.signals = Append(@, "SIGINT")]
           w2 == [w EXCEPT !.io = IF @ = "pending" THEN "cancelled" ELSE @,
                           !.signals = Append(@, "SIGKILL")]
       IN  CASE watcher.pc = "gather1" ->
                  /\ watcher' = IF lookup_error THEN Raise(w1, "ProcessLookupError")
                                ELSE [w1 EXCEPT !.pc = "gather2"]
                  /\ UNCHANGED proc
             [] watcher.pc = "gather2" ->
                  /\ watcher' = IF lookup_error THEN Raise(w2, "ProcessLookupError")
                                ELSE IF proc.state = "exited"
                                THEN Raise([w2 EXCEPT !.waited = TRUE,
                                                      !.ret = proc.returncode],
                                           "CancelledError")
                                ELSE [w2 EXCEPT !.pc = "kill"]
                  /\ proc' = IF proc.state = "running" THEN [proc EXCEPT !.killed = TRUE]
                             ELSE proc
             [] watcher.pc = "kill" ->
                  /\ watcher' = Raise(w, "CancelledError")
                  /\ UNCHANGED proc
             [] OTHER -> FALSE
    /\ UNCHANGED stdout
    /\ UNCHANGED <<coordVars, archVars, pureVars, utilVars>>

\* The gather that run waits on is done: with the exception of a handler,
\* or with the exit code once both streams ended and the process exited.
RunGathered ==
    /\ watcher.pc \in {"gather1", "gather2"}
    /\ ~watcher.must_cancel
    /\ IF watcher.io = "failed" THEN watcher' = Raise(watcher, "ValueError")
       ELSE /\ watcher.io = "done"
            /\ proc.state = "exited"
            /\ watcher' = Finish([watcher EXCEPT !.waited = TRUE, !.ret = proc.returncode])
    /\ UNCHANGED <<proc, stdout>>
    /\ UNCHANGED <<coordVars, archVars, pureVars, utilVars>>

\* Lines 149-150: the killed process is reaped and the CancelledError goes on.
RunKilled ==
    /\ watcher.pc = "kill"
    /\ ~watcher.must_cancel
    /\ proc.state = "exited"
    /\ watcher' = Raise([watcher EXCEPT !.waited = TRUE, !.ret = proc.returncode],
                        "CancelledError")
    /\ UNCHANGED <<proc, stdout>>
    /\ UNCHANGED <<coordVars, archVars, pureVars, utilVars>>

\* The process was spawned and run was not called yet.
WatcherInit ==
    /\ proc = [state |-> "running", returncode |-> 0, killed |-> FALSE]
    /\ stdout = [written |-> <<>>, read |-> 0]
    /\ watcher = NoWatcher

\* ------------------------------------------------------------------------
\* Watcher._parse_line and the loop of Watcher.handle_stdout on the bytes of
\* a line (shelver/build/watcher.py). A line is a sequence of tokens: the
\* comma, the colon, the newline, the escape of a comma, and words that hold
\* none of them.
\* ------------------------------------------------------------------------
Comma == ","

Colon == ":"

Newline == "\n"

PackerComma == "%!(PACKER_COMMA)"

Timestamp == "1000"

\* What the builder has to say, before it is written as a line: text that is
\* not machine readable, or a record of TIMESTAMP,TARGET,TYPE,DATA. key is
\* the SUBTYPE of a ui line and the KEY of an artifact line, text the MESSAGE
\* of a ui or error line (it may hold commas), values the VALUEs of an
\* artifact line (for id: the region and the artifact id).
Output(kind, target, key, index, values, text) ==
    [kind |-> kind, target |-> target, key |-> key, index |-> index, values |-> values,
     text |-> text]

TextOutput ==
    {Output("text", <<>>, "", 0, <<>>, t) :
        t \in {<<"==> Builds finished.">>, <<"a", Comma, "b", Comma, "c">>}}

UiOutput ==
    {Output("ui", <<>>, "say", 0, <<>>, <<"hello", Comma, " world">>),
     Output("ui", <<"amazon-ebs">>, "message", 0, <<>>, <<"a", Comma, "b", Comma, "c">>)}

ErrorOutput == {Output("error", <<>>, "", 0, <<>>, <<"boom", Comma, " twice">>)}

ArtifactValues ==
    [id |-> {<<<<"us-east-1">>, <<"ami-abc">>>>, <<<<"r">>, <<"a", Colon, "b">>>>},
     end |-> {<<>>},
     string |-> {<<<<"AMIs were created">>>>},
     files |-> {<<<<"x">>, <<"y">>>>}]

ArtifactOutput ==
    {Output("artifact", <<>>, k, i, v, <<>>) :
        k \in {"id"}, i \in Indexes, v \in ArtifactValues.id}
        \cup {Output("artifact", <<>>, k, i, v, <<>>) :
                 k \in {"end"}, i \in Indexes, v \in ArtifactValues.end}
        \cup {Output("artifact", <<>>, k, i, v, <<>>) :
                 k \in {"string"}, i \in Indexes, v \in ArtifactValues.string}
        \cup {Output("artifact", <<>>, k, i, v, <<>>) :
                 k \in {"files"}, i \in Indexes, v \in ArtifactValues.files}

PackerOutput == TextOutput \cup UiOutput \cup ErrorOutput \cup ArtifactOutput

\* s.replace(old, new), token by token
RECURSIVE Replace(_, _, _)
Replace(s, old, new) ==
    IF s = <<>> THEN <<>>
    ELSE <<IF Head(s) = old THEN new ELSE Head(s)>> \o Replace(Tail(s), old, new)

\* sep.join(fields)
RECURSIVE Join(_, _)
Join(fields, sep) ==
    IF fields = <<>> THEN <<>>
    ELSE IF Len(fields) = 1 THEN fields[1]
    ELSE fields[1] \o <<sep>> \o Join(Tail(fields), sep)

\* The decimal digits, for str(i) and int(s)
Digits == <<"0", "1", "2", "3">>

\* The line the builder writes in machine-readable mode: the fields joined
\* by commas, the commas of a message escaped.
Format(o) ==
    LET head == <<Timestamp, Comma>> \o o.target \o <<Comma, o.kind, Comma>>
        data == IF o.kind = "ui" THEN <<o.key, Comma>> \o Replace(o.text, Comma, PackerComma)
                ELSE IF o.kind = "error" THEN Replace(o.text, Comma, PackerComma)
                ELSE IF o.key = "id"
                THEN <<Digits[o.index + 1], Comma, o.key, Comma>>
                         \o Join(o.values, Colon)
                ELSE Join(<<<<Digits[o.index + 1]>>, <<o.key>>>> \o o.values, Comma)
    IN  IF o.kind = "text" THEN o.text \o <<Newline>>
        ELSE head \o data \o <<Newline>>

\* line.rstrip()
RECURSIVE rstrip(_)
rstrip(line) ==
    IF line # <<>> /\ line[Len(line)] = Newline
    THEN rstrip(SubSeq(line, 1, Len(line) - 1))
    ELSE line

\* s.split(sep, maxsplit); maxsplit -1 is no limit
RECURSIVE split(_, _, _)
split(s, sep, maxsplit) ==
    LET i == Find(s, sep, 1)
    IN  IF i = 0 \/ maxsplit = 0 THEN <<s>>
        ELSE <<SubSeq(s, 1, i - 1)>>
                 \o split(SubSeq(s, i + 1, Len(s)), sep, maxsplit - 1)

NoParse == [target |-> <<>>, type |-> <<>>, data |-> <<>>, parsed |-> FALSE]

\* (a _parse_line that leaves the escapes in the data)
parse_line_keeping_escapes(line) ==
    LET parts == split(rstrip(line), Comma, 3)
    IN  IF Len(parts) # 4 THEN NoParse
        ELSE [target |-> parts[2], type |-> parts[3], data |-> parts[4], parsed |-> TRUE]

\* Watcher._parse_line: (None, None, None) when the line does not unpack
\* into four fields.
parse_line(line) ==
    LET parts == split(rstrip(line), Comma, 3)
    IN  IF Len(parts) # 4 THEN NoParse
        ELSE [target |-> parts[2], type |-> parts[3],
              data |-> Replace(parts[4], PackerComma, Comma), parsed |-> TRUE]

\* int(s) is defined when s is one of the digits (ValueError otherwise).
IsInt(s) == Len(s) = 1 /\ \E n \in DOMAIN Digits : Digits[n] = s[1]

int(s) == (CHOOSE n \in DOMAIN Digits : Digits[n] = s[1]) - 1

\* (an assignment that drops the other keys of the mapping)
SetItemAlone(m, key, value) ==
    [k \in {key} |-> value]

\* artifact[key] = value
SetItem(m, key, value) ==
    [k \in DOMAIN m \cup {key} |-> IF k = key THEN value ELSE m[k]]

\* An entry of Watcher.artifacts as handle_stdout creates it: {}
EmptyDict == [k \in {} |-> NoValue]

RECURSIVE ExtendDicts(_, _)
ExtendDicts(arts, i) ==
    IF i >= Len(arts) THEN ExtendDicts(Append(arts, EmptyDict), i) ELSE arts

\* pc of the loop of handle_stdout: idle, reading, done (end of file), failed
\* (a line raised).
NoParser ==
    [input |-> <<>>, read |-> 0, isatty |-> FALSE, pc |-> "idle", artifacts |-> <<>>,
     errors |-> <<>>, msg_stream |-> <<>>, log_stream |-> <<>>]

\* Watcher.colored(prefix + b':') on a terminal
Prefix(isatty) ==
    IF isatty THEN <<"\\033[3Xm", "fedora", Colon, "\\033[39m">> ELSE <<"fedora", Colon>>

\* Watcher.write_message
write_message(p, line) ==
    [p EXCEPT !.msg_stream = Append(@, Prefix(p.isatty) \o <<" ">> \o line \o <<Newline>>),
              !.log_stream = Append(@, line \o <<Newline>>)]

LineRaised(p) == [p EXCEPT !.pc = "failed"]

\* Lines 92-106: an artifact line
handle_artifact(p, data) ==
    LET fields == split(data, Comma, -1)
    IN  IF Len(fields) < 2 \/ ~IsInt(fields[1]) THEN LineRaised(p)
        ELSE LET i == int(fields[1])
                 data_key == fields[2]
                 data_val == SubSeq(fields, 3, Len(fields))
                 arts == ExtendDicts(p.artifacts, i)
                 extended == [p EXCEPT !.artifacts = arts]
             IN  IF data_key = <<"id">>
                 THEN IF data_val = <<>> \/ Len(split(data_val[1], Colon, 1)) # 2
                      THEN LineRaised(extended)
                      ELSE LET parts == split(data_val[1], Colon, 1)
                           IN  [p EXCEPT !.artifacts =
                                   [arts EXCEPT ![i + 1] =
                                       SetItem(SetItem(@, <<"region">>, parts[1]),
                                               <<"id">>, parts[2])]]
                 ELSE IF data_key = <<"end">> THEN extended
                 ELSE IF Len(data_val) = 1
                 THEN [p EXCEPT !.artifacts =
                          [arts EXCEPT ![i + 1] = SetItem(@, data_key, data_val[1])]]
                 ELSE [p EXCEPT !.artifacts =
                          [arts EXCEPT ![i + 1] = SetItem(@, data_key, data_val)]]

\* Lines 64-106: one turn of the loop of handle_stdout on a line
handle_line(p, line) ==
    LET l == parse_line(line)
    IN  IF ~l.parsed THEN write_message(p, line)
        ELSE IF l.type = <<"ui">>
        THEN LET parts == split(l.data, Comma, 1)
                 msg == parts[Len(parts)]
             IN  write_message(p, IF l.target # <<>> THEN l.target \o <<": ">> \o msg
                                  ELSE msg)
        ELSE IF l.type = <<"error">> THEN [p EXCEPT !.errors = Append(@, l.data)]
        ELSE IF l.type = <<"artifact">> THEN handle_artifact(p, l.data)
        ELSE p

\* handle_stdout reads the next line of the builder's output.
ParseLine ==
    /\ parser.pc = "reading"
    /\ parser.read < Len(parser.input)
    /\ parser' = [handle_line(parser, Format(parser.input[parser.read + 1]))
                     EXCEPT !.read = parser.read + 1]
    /\ UNCHANGED <<registry, graph, flock>>
    /\ UNCHANGED <<coordVars, archVars, watchVars, utilVars>>

\* readline gives b'': the loop ends.
ParseEof ==
    /\ parser.pc = "reading"
    /\ parser.read = Len(parser.input)
    /\ parser' = [parser EXCEPT !.pc = "done"]
    /\ UNCHANGED <<registry, graph, flock>>
    /\ UNCHANGED <<coordVars, archVars, watchVars, utilVars>>

\* ------------------------------------------------------------------------
\* Registry (shelver/registry.py): the artifacts-by-key index and the
\* versions index, over the images fedora, server and web
\* ------------------------------------------------------------------------
\* str(version), for the key 'name:version'
VersionText == (1 :> "1" @@ 2 :> "2" @@ 24 :> "24" @@ 25 :> "25")

ThisProvider == "test"

\* An artifact object. Artifact defines no __eq__, so two artifacts are equal
\* when they are the same object: obj. A name, a key and an id are sequences
\* of tokens; image is "" and version NoVersion for an unmanaged artifact.
ArtifactObject(obj, name, image, version, id, provider) ==
    [obj |-> obj, name |-> name, image |-> image, version |-> version, id |-> id,
     provider |-> provider]

\* Two artifacts of fedora 25, an unmanaged one, one whose id is also that of
\* the first, and one of another provider
RegistryArtifacts ==
    {ArtifactObject(1, <<"fedora">>, "fedora", 25, <<"ami-1">>, ThisProvider),
     ArtifactObject(2, <<"fedora">>, "fedora", 25, <<"ami-2">>, ThisProvider),
     ArtifactObject(3, <<"vpn">>, "", NoVersion, <<"ami-3">>, ThisProvider),
     ArtifactObject(4, <<"server">>, "server", 2, <<"ami-1">>, ThisProvider),
     ArtifactObject(5, <<"fedora">>, "fedora", 24, <<"ami-5">>, "other")}

\* The name argument of register_artifact (<<>>: not given)
RegisteredNames == {<<>>, <<"whatever">>, <<"fedora", Colon, "25">>}

\* The image and version arguments of associate_artifact
AssociatedImages == {"", "fedora", "debian"}

AssociatedVersions == {NoVersion, 25}

EmptyIndex == [k \in {} |-> 0]

NoRegistryCall ==
    [op |-> "", artifact |-> 0, name |-> <<>>, image |-> "", version |-> NoVersion,
     error |-> ""]

\* Registry.__init__: both indexes empty. calls counts the calls made, last
\* tells the latest one and the error it raised ("": it returned).
NewRegistry == [artifacts |-> EmptyIndex, versions |-> EmptyIndex, calls |-> 0,
                last |-> NoRegistryCall]

\* (a register_artifact that does not look for an existing artifact)
register_artifact_overwriting(r, artifact, name) ==
    LET key == IF name # <<>> THEN name
               ELSE IF artifact.version # NoVersion
               THEN artifact.name \o <<Colon, VersionText[artifact.version]>>
               ELSE artifact.name
    IN  [r EXCEPT !.artifacts = SetItem(SetItem(@, key, artifact), artifact.id, artifact),
                  !.last = [NoRegistryCall EXCEPT !.op = "register_artifact",
                                                  !.artifact = artifact, !.name = name]]

\* Registry.register_artifact
register_artifact(r, artifact, name) ==
    LET key == IF name # <<>> THEN name
               ELSE IF artifact.version # NoVersion
               THEN artifact.name \o <<Colon, VersionText[artifact.version]>>
               ELSE artifact.name
        call == [NoRegistryCall EXCEPT !.op = "register_artifact", !.artifact = artifact,
                                       !.name = name]
    IN  IF key \in DOMAIN r.artifacts
        THEN IF r.artifacts[key] # artifact
             THEN [r EXCEPT !.last = [call EXCEPT !.error = "ValueError"]]
             ELSE [r EXCEPT !.last = call]
        ELSE [r EXCEPT !.artifacts = SetItem(SetItem(@, key, artifact), artifact.id, artifact),
                       !.last = call]

\* Registry.get_artifact: the artifact bound to the key (absent: it raises)
registry_get_artifact(r, key) ==
    IF key \in DOMAIN r.artifacts THEN r.artifacts[key] ELSE NoArtifact

\* (an associate_artifact that does not look for an existing association)
associate_artifact_rebinding(r, artifact, image, version) ==
    LET i == IF image # "" THEN image ELSE artifact.image
        v == IF version # NoVersion THEN version ELSE artifact.version
        call == [NoRegistryCall EXCEPT !.op = "associate_artifact", !.artifact = artifact,
                                       !.image = image, !.version = version]
    IN  IF i = "" \/ v = NoVersion THEN [r EXCEPT !.last = [call EXCEPT !.error = "ValueError"]]
        ELSE IF i \notin Images
        THEN [r EXCEPT !.last = [call EXCEPT !.error = "UnknownImageError"]]
        ELSE IF artifact.provider # ThisProvider
        THEN [r EXCEPT !.last = [call EXCEPT !.error = "ValueError"]]
        ELSE [r EXCEPT !.versions = SetItem(@, <<i, v>>, artifact), !.last = call]

\* Registry.associate_artifact
associate_artifact(r, artifact, image, version) ==
    LET i == IF image # "" THEN image ELSE artifact.image
        v == IF version # NoVersion THEN version ELSE artifact.version
        call == [NoRegistryCall EXCEPT !.op = "associate_artifact", !.artifact = artifact,
                                       !.image = image, !.version = version]
    IN  IF i = "" \/ v = NoVersion THEN [r EXCEPT !.last = [call EXCEPT !.error = "ValueError"]]
        ELSE IF i \notin Images
        THEN [r EXCEPT !.last = [call EXCEPT !.error = "UnknownImageError"]]
        ELSE IF <<i, v>> \in DOMAIN r.versions
        THEN [r EXCEPT !.last = [call EXCEPT !.error = "ValueError"]]
        ELSE IF artifact.provider # ThisProvider
        THEN [r EXCEPT !.last = [call EXCEPT !.error = "ValueError"]]
        ELSE [r EXCEPT !.versions = SetItem(@, <<i, v>>, artifact), !.last = call]

\* Registry.get_image_artifact (an unknown image or version: it raises)
get_image_artifact(r, image, version) ==
    LET v == IF version # NoVersion THEN version ELSE CurrentVersion(image)
    IN  IF image \in Images /\ <<image, v>> \in DOMAIN r.versions
        THEN r.versions[<<image, v>>]
        ELSE NoArtifact

RegisterArtifact(artifact, name) ==
    /\ registry.calls < MaxCalls
    /\ registry' = [register_artifact(registry, artifact, name)
                       EXCEPT !.calls = registry.calls + 1]
    /\ UNCHANGED <<parser, graph, flock>>
    /\ UNCHANGED <<coordVars, archVars, watchVars, utilVars>>

AssociateArtifact(artifact, image, version) ==
    /\ registry.calls < MaxCalls
    /\ registry' = [associate_artifact(registry, artifact, image, version)
                       EXCEPT !.calls = registry.calls + 1]
    /\ UNCHANGED <<parser, graph, flock>>
    /\ UNCHANGED <<coordVars, archVars, watchVars, utilVars>>

\* ------------------------------------------------------------------------
\* topological_sort (shelver/util.py) and Registry.check_cycles
\* ------------------------------------------------------------------------
\* The bases an image of a catalog may name: none, an image of the catalog
\* (itself too, or with a pinned version), or a name that is no image
BaseRefs ==
    {NoBase, <<"fedora", NoVersion>>, <<"server", NoVersion>>, <<"server", 1>>,
     <<"web", NoVersion>>, <<"vpn", NoVersion>>, <<"whatever", NoVersion>>}

\* The keys of Registry._artifacts when check_cycles is called: the names of
\* unmanaged artifacts
ArtifactKeySets == SUBSET {"vpn", "server"}

\* The names the sources of an edge are taken from
SourceNames == Images \cup {"vpn"}

NoEdges == [d \in {} |-> {}]

NoGraph ==
    [op |-> "", catalog |-> [i \in Images |-> NoBase], keys |-> {}, nodes |-> {},
     edges |-> NoEdges, pc |-> "idle", error |-> "", result |-> <<>>, cycles |-> NoEdges]

\* Lines 202-217 of util.py: the leaves make a level and are removed from
\* the sources of every edge; the destinations left without sources are
\* deleted from edges and are the next leaves.
RECURSIVE sort_levels(_, _, _)
sort_levels(leaves, edges, result) ==
    IF leaves = {}
    THEN IF DOMAIN edges # {}
         THEN [error |-> "TopologicalSortError", result |-> <<>>, cycles |-> edges]
         ELSE [error |-> "", result |-> result, cycles |-> NoEdges]
    ELSE LET removed == [d \in DOMAIN edges |-> edges[d] \ leaves]
             next == {d \in DOMAIN removed : removed[d] = {}}
         IN  sort_levels(next, [d \in DOMAIN removed \ next |-> removed[d]],
                         Append(result, leaves))

\* topological_sort(nodes, edges): edges maps a destination to its sources;
\* the first leaves are the nodes that are no key of edges.
topological_sort(nodes, edges) ==
    sort_levels({n \in nodes : n \notin DOMAIN edges}, edges, <<>>)

\* (a check_cycles that passes over a base it does not know)
check_cycles_skipping_unknown(c, keys) ==
    LET linked == {i \in DOMAIN c : base_with_version(c, i)[1] \in DOMAIN c \ keys}
        edges == [b \in {base_with_version(c, i)[1] : i \in linked} |->
                     {i \in linked : base_with_version(c, i)[1] = b}]
    IN  IF topological_sort(DOMAIN c, edges).error # "" THEN "ConfigurationError" ELSE ""

\* Registry.check_cycles on the catalog c with the artifact keys registered:
\* the error it raises ("": it returns).
check_cycles(c, keys) ==
    LET linked == {i \in DOMAIN c : /\ base_with_version(c, i)[1] # ""
                                    /\ base_with_version(c, i)[1] \notin keys}
        edges == [b \in {base_with_version(c, i)[1] : i \in linked} |->
                     {i \in linked : base_with_version(c, i)[1] = b}]
    IN  IF \E i \in linked : base_with_version(c, i)[1] \notin DOMAIN c
        THEN "UnknownImageError"
        ELSE IF topological_sort(DOMAIN c, edges).error # "" THEN "ConfigurationError"
        ELSE ""

CheckCycles ==
    /\ graph.op = "check_cycles"
    /\ graph.pc = "called"
    /\ graph' = [graph EXCEPT !.pc = "done", !.error = check_cycles(graph.catalog, graph.keys)]
    /\ UNCHANGED <<parser, registry, flock>>
    /\ UNCHANGED <<coordVars, archVars, watchVars, utilVars>>

TopologicalSort ==
    /\ graph.op = "topological_sort"
    /\ graph.pc = "called"
    /\ LET r == topological_sort(graph.nodes, graph.edges)
       IN  graph' = [graph EXCEPT !.pc = "done", !.error = r.error, !.result = r.result,
                                  !.cycles = r.cycles]
    /\ UNCHANGED <<parser, registry, flock>>
    /\ UNCHANGED <<coordVars, archVars, watchVars, utilVars>>

\* ------------------------------------------------------------------------
\* FileLock (shelver/archive/file_lock.py) under the competing writers of
\* test_flock.py: every writer has opened the same file by itself, so every
\* FileLock wraps an open file description of its own
\* ------------------------------------------------------------------------
Writers == 1..MaxWriters

\* The bytes a writer writes: DataLen bytes that no other writer writes
Data(w) == [p \in 1..DataLen |-> <<w, p>>]

NullByte == <<0, 0>>

\* pc of a writer:
\*   start     write() not entered
\*   locking   in acquire(): fcntl.flock(file, LOCK_EX) runs in the executor
\*   granted   flock has returned in the executor, acquire() has not yet
\*   writing   acquire() has returned: between the writes of the bytes
\*   done      release() was called
\* todo: the positions not written yet.
NoWriter == [pc |-> "start", todo |-> {}]

\* holder: the open file description that has LOCK_EX on the file (0: none)
NewFile == [holder |-> 0, content |-> <<>>, writers |-> [w \in Writers |-> NoWriter]]

\* f.truncate(size)
truncate(content, size) ==
    [p \in 1..size |-> IF p <= Len(content) THEN content[p] ELSE NullByte]

\* f.seek(i); f.write(data[i:i + 1])
write_at(content, i, byte) == [content EXCEPT ![i] = byte]

\* Line 15: acquire() hands flock to the executor and waits for it.
Acquire(w) ==
    /\ flock.writers[w].pc = "start"
    /\ flock' = [flock EXCEPT !.writers[w].pc = "locking"]
    /\ UNCHANGED <<parser, registry, graph>>
    /\ UNCHANGED <<coordVars, archVars, watchVars, utilVars>>

\* (a lock that is granted whoever holds it: FakeFileLock of test_flock.py)
FlockGrantedUnlocked(w) ==
    /\ flock.writers[w].pc = "locking"
    /\ flock' = [flock EXCEPT !.holder = w, !.writers[w].pc = "granted"]
    /\ UNCHANGED <<parser, registry, graph>>
    /\ UNCHANGED <<coordVars, archVars, watchVars, utilVars>>

\* fcntl.flock(file, LOCK_EX) returns in the executor once no other open file
\* description holds a lock on the file.
FlockGranted(w) ==
    /\ flock.writers[w].pc = "locking"
    /\ flock.holder = 0
    /\ flock' = [flock EXCEPT !.holder = w, !.writers[w].pc = "granted"]
    /\ UNCHANGED <<parser, registry, graph>>
    /\ UNCHANGED <<coordVars, archVars, watchVars, utilVars>>

\* Lines 17-18: acquire() returns the file. The writer truncates it, writes
\* the byte at the first of its shuffled positions and yields (test_flock.py
\* lines 39-50).
AcquireReturns(w, i) ==
    /\ flock.writers[w].pc = "granted"
    /\ flock' = [flock EXCEPT !.content = write_at(truncate(@, DataLen), i, Data(w)[i]),
                              !.writers[w] = [pc |-> "writing", todo |-> (1..DataLen) \ {i}]]
    /\ UNCHANGED <<parser, registry, graph>>
    /\ UNCHANGED <<coordVars, archVars, watchVars, utilVars>>

\* The writer writes the byte at its next position and yields.
WriteByte(w, i) ==
    /\ flock.writers[w].pc = "writing"
    /\ i \in flock.writers[w].todo
    /\ flock' = [flock EXCEPT !.content = write_at(@, i, Data(w)[i]),
                              !.writers[w].todo = @ \ {i}]
    /\ UNCHANGED <<parser, registry, graph>>
    /\ UNCHANGED <<coordVars, archVars, watchVars, utilVars>>

\* Lines 20-21: release() is fcntl.flock(file, LOCK_UN).
Release(w) ==
    /\ flock.writers[w].pc = "writing"
    /\ flock.writers[w].todo = {}
    /\ flock' = [flock EXCEPT !.holder = IF @ = w THEN 0 ELSE @,
                              !.writers[w].pc = "done"]
    /\ UNCHANGED <<parser, registry, graph>>
    /\ UNCHANGED <<coordVars, archVars, watchVars, utilVars>>

\* Line 17 with a timeout: wait_for(do_lock, timeout) expires before flock
\* has returned. wait_for cancels do_lock and raises TimeoutError to the
\* caller of acquire(). do_lock is the future of run_in_executor: when the
\* executor has started fcntl.flock already ("started"), the cancellation
\* cannot stop the thread, which stays blocked in flock; when the call still
\* sits in the executor's queue, the cancellation removes it.
\* pc of the writer afterwards:
\*   timed_out  acquire() has raised, the executor is still inside flock
\*   cancelled  acquire() has raised, flock is never called
AcquireTimeout(w, started) ==
    /\ flock.writers[w].pc = "locking"
    /\ flock' = [flock EXCEPT
                   !.writers[w].pc = IF started THEN "timed_out" ELSE "cancelled"]
    /\ UNCHANGED <<parser, registry, graph>>
    /\ UNCHANGED <<coordVars, archVars, watchVars, utilVars>>

\* fcntl.flock(file, LOCK_EX) of a timed-out acquire() returns in the
\* executor (line 15) once no other open file description holds a lock:
\* the file of the caller that was told TimeoutError has the lock now, and
\* nothing of acquire() is left to release it.
\*   abandoned  acquire() has raised, the file of the writer holds the lock
FlockGrantedLate(w) ==
    /\ flock.writers[w].pc = "timed_out"
    /\ flock.holder = 0
    /\ flock' = [flock EXCEPT !.holder = w, !.writers[w].pc = "abandoned"]
    /\ UNCHANGED <<parser, registry, graph>>
    /\ UNCHANGED <<coordVars, archVars, watchVars, utilVars>>

PureInit ==
    /\ parser = NoParser
    /\ registry = NewRegistry
    /\ graph = NoGraph
    /\ flock = NewFile

\* ------------------------------------------------------------------------
\* GitArchive (shelver/archive/git.py) under Builder.build_archive
\* (shelver/build/builder.py): every call of build_archive makes a
\* GitArchive object of its own, with the Builder's temporary directory as
\* tmp_dir and the Builder's cache directory as cache_dir
\* ------------------------------------------------------------------------
Archives == 1..MaxArchives

\* The revisions the images' archive options name, of one source directory
Revisions == {"HEAD", "v1"}

\* Line 59: work_tree is os.path.join(self.tmp_dir, 'worktree'), the same
\* path for every GitArchive of one Builder.
work_tree(a) == "tmp/worktree"

\* Line 60 with line 51: the temporary archive is named after the revision.
tmp_archive(revision) == <<"tmp", revision>>

\* The git commands of build(), which _run_git runs holding self._git_lock
GitCommands == {"rev-parse", "worktree add", "checkout", "submodule update",
                "worktree prune"}

\* pc of a build_archive call: the subprocess or executor call it awaits
\*   start             not called
\*   rev-parse         get_or_build line 64: basename() -> revision_id()
\*   worktree add      build() lines 63-64
\*   checkout          build() lines 65-66
\*   submodule update  build() lines 67-69
\*   tar               build() lines 70-72
\*   rmtree            build() lines 75-77
\*   worktree prune    build() line 79
\*   cached            get_or_build found the cache file (FileExistsError)
\*   done              get_or_build has returned
\* failed: an exception is in flight through the finally of build()
NoGitArchive == [revision |-> "", pc |-> "start", failed |-> FALSE]

NoWorktree == [owner |-> 0, revision |-> ""]

\* worktree: the directory at work_tree: the build whose 'worktree add' made
\*           it and the revision checked out in it (owner 0: no directory)
\* cache:    the revisions with a file in the cache directory
\* packed:   <<temporary archive path, the revision of the tree packed in it>>
NewGit ==
    [archives |-> [a \in Archives |-> NoGitArchive],
     worktree |-> NoWorktree,
     cache |-> {},
     packed |-> {}]

\* self._git_lock of a GitArchive is held exactly while one of its git
\* subprocesses runs (_run_git lines 26-35)
git_lock_locked(a) == git.archives[a].pc \in GitCommands

\* Builder.build_archive (builder.py lines 101-105) calls get_or_build,
\* which asks for the basename: revision_id() runs 'git rev-parse' under
\* the lock of this GitArchive.
BuildArchive(a) ==
    /\ git.archives[a].pc = "start"
    /\ ~git_lock_locked(a)
    /\ git' = [git EXCEPT !.archives[a].pc = "rev-parse"]
    /\ UNCHANGED <<merge, template, supervisor, builder>>
    /\ UNCHANGED <<coordVars, archVars, watchVars, pureVars>>

\* rev-parse has finished. get_or_build opens the cache file of the basename
\* with mode 'x' (base.py line 71): when it exists the call only waits for
\* the running build; otherwise it creates the file and calls build(), which
\* starts 'git worktree add --detach <work_tree>'.
RevParsed(a) ==
    /\ git.archives[a].pc = "rev-parse"
    /\ LET revision == git.archives[a].revision
       IN  IF revision \in git.cache
           THEN git' = [git EXCEPT !.archives[a].pc = "cached"]
           ELSE git' = [git EXCEPT !.cache = @ \cup {revision},
                                   !.archives[a].pc = "worktree add"]
    /\ UNCHANGED <<merge, template, supervisor, builder>>
    /\ UNCHANGED <<coordVars, archVars, watchVars, pureVars>>

\* 'git worktree add' has finished: it creates the directory, and fails
\* (CalledProcessError, util.py lines 237-245) when the path exists already.
\* A failure goes to the finally of build(), which starts rmtree.
WorktreeAdded(a) ==
    /\ git.archives[a].pc = "worktree add"
    /\ IF git.worktree.owner = 0
       THEN git' = [git EXCEPT !.worktree = [owner |-> a, revision |-> "HEAD"],
                               !.archives[a].pc = "checkout"]
       ELSE git' = [git EXCEPT !.archives[a].pc = "rmtree",
                               !.archives[a].failed = TRUE]
    /\ UNCHANGED <<merge, template, supervisor, builder>>
    /\ UNCHANGED <<coordVars, archVars, watchVars, pureVars>>

\* 'git checkout --detach <rev>' with cwd=work_tree has finished: it checks
\* the revision out in whatever directory is at work_tree, and fails when
\* there is none.
CheckedOut(a) ==
    /\ git.archives[a].pc = "checkout"
    /\ IF git.worktree.owner # 0
       THEN git' = [git EXCEPT !.worktree.revision = git.archives[a].revision,
                               !.archives[a].pc = "submodule update"]
       ELSE git' = [git EXCEPT !.archives[a].pc = "rmtree",
                               !.archives[a].failed = TRUE]
    /\ UNCHANGED <<merge, template, supervisor, builder>>
    /\ UNCHANGED <<coordVars, archVars, watchVars, pureVars>>

\* 'git submodule update' with cwd=work_tree has finished; build() starts
\* tar, which runs without the lock (lines 70-72).
SubmodulesUpdated(a) ==
    /\ git.archives[a].pc = "submodule update"
    /\ IF git.worktree.owner # 0
       THEN git' = [git EXCEPT !.archives[a].pc = "tar"]
       ELSE git' = [git EXCEPT !.archives[a].pc = "rmtree",
                               !.archives[a].failed = TRUE]
    /\ UNCHANGED <<merge, template, supervisor, builder>>
    /\ UNCHANGED <<coordVars, archVars, watchVars, pureVars>>

\* tar has finished: the temporary archive holds the tree that was at
\* work_tree. The finally of build() starts rmtree.
Tarred(a) ==
    /\ git.archives[a].pc = "tar"
    /\ IF git.worktree.owner # 0
       THEN git' = [git EXCEPT
                      !.packed = @ \cup {<<tmp_archive(git.archives[a].revision),
                                           git.worktree.revision>>},
                      !.archives[a].pc = "rmtree"]
       ELSE git' = [git EXCEPT !.archives[a].pc = "rmtree",
                               !.archives[a].failed = TRUE]
    /\ UNCHANGED <<merge, template, supervisor, builder>>
    /\ UNCHANGED <<coordVars, archVars, watchVars, pureVars>>

\* What get_or_build does when build() is over (base.py lines 76-97): the
\* temporary archive is moved to the cache path, or, after an exception, the
\* cache file is unlinked; the path is returned in both cases.
AfterBuild(g, a) ==
    [g EXCEPT !.archives[a].pc = "done",
              !.cache = IF g.archives[a].failed
                        THEN @ \ {g.archives[a].revision} ELSE @]

\* shutil.rmtree(work_tree) has finished (lines 75-77): it removes the
\* directory at work_tree, whoever made it, and build() starts 'git worktree
\* prune'. When there is no directory rmtree raises, line 80 swallows that
\* and the prune is skipped.
Cleaned(a) ==
    /\ git.archives[a].pc = "rmtree"
    /\ IF git.worktree.owner # 0
       THEN git' = [git EXCEPT !.worktree = NoWorktree,
                               !.archives[a].pc = "worktree prune"]
       ELSE git' = AfterBuild(git, a)
    /\ UNCHANGED <<merge, template, supervisor, builder>>
    /\ UNCHANGED <<coordVars, archVars, watchVars, pureVars>>

\* 'git worktree prune' has finished (line 79): build() returns the
\* temporary archive, or lets the exception in flight go on.
Pruned(a) ==
    /\ git.archives[a].pc = "worktree prune"
    /\ git' = AfterBuild(git, a)
    /\ UNCHANGED <<merge, template, supervisor, builder>>
    /\ UNCHANGED <<coordVars, archVars, watchVars, pureVars>>

\* ------------------------------------------------------------------------
\* deep_merge (shelver/util.py) over a heap of Python objects
\*
\* A value is a scalar ("1", "2" and the keys "a", "b") or the id of an
\* object of the heap. An object has a type and items: the (key, value)
\* pairs of a mapping in iteration order, the elements of a list or tuple,
\* the elements of a set in some order without repetition.
\* ------------------------------------------------------------------------
Ids == <<"#1", "#2", "#3", "#4", "#5", "#6", "#7", "#8", "#9", "#10", "#11", "#12",
         "#13", "#14", "#15", "#16", "#17", "#18">>

IsRef(v) == \E i \in 1..Len(Ids) : Ids[i] = v

Index(v) == CHOOSE i \in 1..Len(Ids) : Ids[i] = v

Deref(h, v) == h[Index(v)]

Obj(type, items) == [type |-> type, items |-> items]

\* A new object at the end of the heap
Alloc(h, obj) == [heap |-> Append(h, obj), value |-> Ids[Len(h) + 1]]

\* isinstance(v, Mapping); ListMapping is the read-only Mapping of
\* test_util.py
MappingTypes == {"dict", "OrderedDict", "ListMapping"}

\* isinstance(left, MutableMapping) and callable(getattr(left, 'copy', None))
MutableMappingTypes == {"dict", "OrderedDict"}

\* isinstance(v, Set)
SetTypes == {"set", "frozenset"}

\* What __hash__ refuses
UnhashableTypes == {"dict", "OrderedDict", "list", "set"}

IsMapping(h, v) == IsRef(v) /\ Deref(h, v).type \in MappingTypes

IsSet(h, v) == IsRef(v) /\ Deref(h, v).type \in SetTypes

\* util.is_collection (lines 113-114): Iterable and neither bytes nor str;
\* every object of the heap is one, no scalar is.
is_collection(h, v) == IsRef(v)

\* iter(v): the keys of a mapping, the elements of any other collection
Iter(h, v) ==
    IF IsMapping(h, v)
    THEN [i \in 1..Len(Deref(h, v).items) |-> Deref(h, v).items[i][1]]
    ELSE Deref(h, v).items

HasKey(items, k) == \E i \in 1..Len(items) : items[i][1] = k

GetItem(items, k) == items[CHOOSE i \in 1..Len(items) : items[i][1] = k][2]

\* d[k] = v on the items of a dict: an existing key keeps its place
PutItem(items, k, v) ==
    IF HasKey(items, k)
    THEN [i \in 1..Len(items) |-> IF items[i][1] = k THEN <<k, v>> ELSE items[i]]
    ELSE Append(items, <<k, v>>)

SetItems(h, v, items) == [h EXCEPT ![Index(v)].items = items]

RECURSIVE Dedup(_)
Dedup(s) ==
    IF s = <<>> THEN <<>>
    ELSE LET front == Dedup(SubSeq(s, 1, Len(s) - 1))
         IN  IF \E i \in 1..Len(front) : front[i] = s[Len(s)]
             THEN front ELSE Append(front, s[Len(s)])

Merged(h, v) == [heap |-> h, value |-> v, error |-> ""]

MergeError(h, e) == [heap |-> h, value |-> "", error |-> e]

\* (res = left instead of res = left.copy())
copy_aliasing(h, left) == [heap |-> h, value |-> left]

\* left.copy() (line 125): a new object of the type of left with its items
copy(h, left) == Alloc(h, Deref(h, left))

RECURSIVE deep_merge(_, _, _)
RECURSIVE merge_right_items(_, _, _, _)
RECURSIVE merge_left_items(_, _, _, _, _)

\* Lines 126-132 of _merge_mutable_mapping: the loop over right.items() from
\* the i-th item on, res being the copy of left.
merge_right_items(h, res, ritems, i) ==
    IF i > Len(ritems) THEN Merged(h, res)
    ELSE LET k == ritems[i][1]
             right_v == ritems[i][2]
             items == Deref(h, res).items
         IN  IF HasKey(items, k)
             THEN LET m == deep_merge(h, GetItem(items, k), right_v)
                  IN  IF m.error # "" THEN m
                      ELSE merge_right_items(
                               SetItems(m.heap, res,
                                        PutItem(Deref(m.heap, res).items, k, m.value)),
                               res, ritems, i + 1)
             ELSE merge_right_items(SetItems(h, res, PutItem(items, k, right_v)),
                                    res, ritems, i + 1)

\* _merge_mutable_mapping (lines 124-132)
merge_mutable_mapping(h, left, right) ==
    LET res == copy(h, left)
    IN  merge_right_items(res.heap, res.value, Deref(res.heap, right).items, 1)

\* Lines 137-144 of _merge_mapping: the loop over left.items() from the i-th
\* item on; yielded holds the pairs yielded so far.
merge_left_items(h, litems, right, i, yielded) ==
    IF i > Len(litems) THEN [heap |-> h, value |-> yielded, error |-> ""]
    ELSE LET k == litems[i][1]
             left_v == litems[i][2]
             ritems == Deref(h, right).items
         IN  IF HasKey(ritems, k)
             THEN LET m == deep_merge(h, left_v, GetItem(ritems, k))
                  IN  IF m.error # "" THEN m
                      ELSE merge_left_items(m.heap, litems, right, i + 1,
                                            Append(yielded, <<k, m.value>>))
             ELSE merge_left_items(h, litems, right, i + 1,
                                   Append(yielded, <<k, left_v>>))

\* _merge_mapping (lines 135-148) consumed by tpe(...) of line 161: the
\* pairs of left, merged, then the pairs of right whose key left has not.
merge_mapping(h, left, right) ==
    LET litems == Deref(h, left).items
        ritems == Deref(h, right).items
        m == merge_left_items(h, litems, right, 1, <<>>)
    IN  IF m.error # "" THEN m
        ELSE LET rest == SelectSeq(ritems, LAMBDA p : ~HasKey(litems, p[1]))
                 new == Alloc(m.heap, Obj(Deref(h, left).type, m.value \o rest))
             IN  Merged(new.heap, new.value)

\* deep_merge (lines 151-174)
deep_merge(h, left, right) ==
    IF IsMapping(h, left)
    THEN IF ~IsMapping(h, right)
         THEN MergeError(h, "ValueError")
         ELSE IF Deref(h, left).type \in MutableMappingTypes
              THEN merge_mutable_mapping(h, left, right)
              ELSE merge_mapping(h, left, right)
    ELSE IF IsSet(h, left)
    THEN IF ~is_collection(h, right)
         THEN MergeError(h, "ValueError")
         ELSE IF \E i \in 1..Len(Iter(h, right)) :
                    /\ IsRef(Iter(h, right)[i])
                    /\ Deref(h, Iter(h, right)[i]).type \in UnhashableTypes
              THEN MergeError(h, "TypeError")
              ELSE LET new == Alloc(h, Obj(Deref(h, left).type,
                                           Dedup(Deref(h, left).items \o Iter(h, right))))
                   IN  Merged(new.heap, new.value)
    ELSE IF is_collection(h, left)
    THEN IF ~is_collection(h, right)
         THEN MergeError(h, "ValueError")
         ELSE LET new == Alloc(h, Obj(Deref(h, left).type,
                                      Iter(h, left) \o Iter(h, right)))
              IN  Merged(new.heap, new.value)
    ELSE Merged(h, right)

\* The objects the operands are taken from: those of test_deep_merge
\* (test_util.py lines 55-88), and mappings that hold other objects
MergeHeap ==
    << Obj("dict", <<>>),
       Obj("dict", << <<"a", "1">> >>),
       Obj("dict", << <<"a", "2">>, <<"b", "#7">> >>),
       Obj("dict", << <<"a", "#2">> >>),
       Obj("OrderedDict", << <<"b", "1">>, <<"a", "2">> >>),
       Obj("ListMapping", << <<"a", "1">>, <<"b", "#2">> >>),
       Obj("list", << "1" >>),
       Obj("tuple", << "1", "2" >>),
       Obj("set", << "1" >>),
       Obj("frozenset", << "2" >>),
       Obj("list", <<>>) >>

EmptyDictId == "#1"

MergeOperands == {"1", "2"} \cup {Ids[i] : i \in 1..Len(MergeHeap)}

\* pc: "idle" no call, "called" deep_merge(left, right) entered, "done"
\* before: the heap when the call was made
NoMerge ==
    [pc |-> "idle", heap |-> <<>>, before |-> <<>>, left |-> "", right |-> "",
     value |-> "", error |-> ""]

DeepMerge ==
    /\ merge.pc = "called"
    /\ LET m == deep_merge(merge.heap, merge.left, merge.right)
       IN  merge' = [merge EXCEPT !.pc = "done", !.heap = m.heap, !.value = m.value,
                                  !.error = m.error]
    /\ UNCHANGED <<git, template, supervisor, builder>>
    /\ UNCHANGED <<coordVars, archVars, watchVars, pureVars>>

\* ------------------------------------------------------------------------
\* Builder.process_template (shelver/build/builder.py) over YAML documents
\*
\* A node of a document has a type; a scalar has a value, the tokens of its
\* text; a dict has keys and, in the same order, the nodes under them; a
\* list has nodes.
\* ------------------------------------------------------------------------
Node(type, value, keys, items) ==
    [type |-> type, value |-> value, keys |-> keys, items |-> items]

Scalar(type, value) == Node(type, value, <<>>, <<>>)

Dict(keys, items) == Node("dict", <<>>, keys, items)

List(items) == Node("list", <<>>, <<>>, items)

PyNone == Scalar("NoneType", <<"None">>)

\* The context of get_template_context (lines 116-126), as far as the
\* documents below use it
TemplateContext == [version |-> "7", name |-> "fedora"]

\* Template(data).render(context) (line 136): every variable of the text is
\* replaced by the value the context gives it.
render(value, context) ==
    [i \in 1..Len(value) |->
        CASE value[i] = "{{ version }}" -> context.version
          [] value[i] = "{{ name }}" -> context.name
          [] OTHER -> value[i]]

\* literal_eval(result) (lines 137-140): the text of a Python literal gives
\* the literal, any other text raises SyntaxError or ValueError and stays a
\* string.
literal_eval(result) ==
    CASE result = <<"7">> -> Scalar("int", result)
      [] result = <<"True">> -> Scalar("bool", result)
      [] OTHER -> Scalar("str", result)

\* process_template (lines 129-142). A node that is no Mapping, no
\* collection and no str reaches the end of the function, which returns
\* None.
RECURSIVE process_template(_, _)
process_template(data, context) ==
    CASE data.type = "dict" ->
            Dict(data.keys,
                 [i \in 1..Len(data.items) |-> process_template(data.items[i], context)])
      [] data.type = "list" ->
            List([i \in 1..Len(data.items) |-> process_template(data.items[i], context)])
      [] data.type = "str" -> literal_eval(render(data.value, context))
      [] OTHER -> PyNone

\* The leaves yaml.safe_load gives (line 148)
Leaves ==
    {Scalar("int", <<"5">>), Scalar("float", <<"2.5">>), Scalar("bool", <<"True">>),
     PyNone, Scalar("str", <<"text">>), Scalar("str", <<"{{ version }}">>),
     Scalar("str", <<"image-", "{{ name }}">>)}

Lists == {List(<<x>>) : x \in Leaves} \cup {List(<<x, y>>) : x \in Leaves, y \in Leaves}

Documents ==
    Leaves \cup Lists \cup {Dict(<<"builders">>, <<x>>) : x \in Leaves \cup Lists}

\* pc: "idle" no call, "called" process_template(data, context) entered,
\* "done" returned
NoTemplate == [pc |-> "idle", data |-> PyNone, result |-> PyNone]

ProcessTemplate ==
    /\ template.pc = "called"
    /\ template' = [template EXCEPT
                      !.pc = "done",
                      !.result = process_template(template.data, TemplateContext)]
    /\ UNCHANGED <<git, merge, supervisor, builder>>
    /\ UNCHANGED <<coordVars, archVars, watchVars, pureVars>>

\* ------------------------------------------------------------------------
\* AsyncLoopSupervisor (shelver/util.py) and the event loop it supervises
\*
\* loop.add_signal_handler(sig, fn) makes the loop, when it reads a signal,
\* append a handle for the fn registered at that moment to its ready queue;
\* the handle runs when its turn comes. loop.call_later gives a timer handle
\* that the loop appends to the ready queue when it expires; a cancelled
\* handle never runs. A KeyboardInterrupt raised by a handle leaves
\* run_until_complete with the rest of the ready queue in place.
\* ------------------------------------------------------------------------
Handle(fn, timer) == [fn |-> fn, timer |-> timer]

\* pc of supervise: "idle" not called, "running" inside run_until_complete
\*    (lines 93-97), "returned", "raised"
\* handler: what the signals are bound to ("" nothing)
\* ready: the handles of the loop's ready queue that matter here
\* timers: the call_later(timeout, _stop, True) handles that are pending
\* timeout_handle: self._timeout_handle, the latest of them (0: None)
\* stop_handles: how many call_later(1, loop.stop) are pending
\* task: the supervised task, "running" or "done"
\* must_cancel: the cause of the cancellation that is under way ("" none)
\* delivered: the causes of the CancelledErrors raised in the task
\* signals: how many signals arrived
NoSupervisor ==
    [pc |-> "idle", handler |-> "", ready |-> <<>>, timers |-> {}, created |-> 0,
     timeout_handle |-> 0, stop_handles |-> 0, timed_out |-> FALSE,
     loop_running |-> FALSE, task |-> "running", must_cancel |-> "",
     delivered |-> <<>>, signals |-> 0]

\* handle.cancel() of a timer: it neither expires nor, if expired, runs
CancelTimer(s, t) ==
    [s EXCEPT !.timers = @ \ {t},
              !.ready = SelectSeq(@, LAMBDA h : h.timer # t \/ t = 0)]

\* Lines 96-97 of supervise: the KeyboardInterrupt a handle raised is caught
\* and run_fut.cancel() called. On a task that is not done and has no
\* cancellation under way, cancel() cancels what the task waits for, which
\* puts the step of the task that raises CancelledError in it on the ready
\* queue; further cancel() calls before that step add nothing. The loop is
\* then run again.
OnKeyboardInterrupt(s, cause) ==
    IF s.task = "running" /\ s.must_cancel = ""
    THEN [s EXCEPT !.must_cancel = cause, !.ready = Append(@, Handle("step", 0))]
    ELSE s

\* _interrupt (lines 67-73): the signals are bound to _stop, a timer for
\* _stop(True) is started and kept in _timeout_handle.
interrupt(s) ==
    OnKeyboardInterrupt(
        [s EXCEPT !.handler = "_stop",
                  !.timers = @ \cup {s.created + 1},
                  !.created = @ + 1,
                  !.timeout_handle = s.created + 1],
        "signal")

\* _stop (lines 75-86)
stop(s, timed_out) ==
    OnKeyboardInterrupt(
        [CancelTimer(s, s.timeout_handle) EXCEPT
            !.timed_out = IF timed_out THEN TRUE ELSE @,
            !.handler = "",
            !.stop_handles = @ + 1],
        IF timed_out THEN "timeout" ELSE "signal")

\* The finally of supervise (lines 98-110)
Finally(s, pc) ==
    [CancelTimer(s, s.timeout_handle) EXCEPT
        !.pc = pc, !.handler = "", !.stop_handles = 0, !.loop_running = FALSE]

\* supervise up to run_until_complete (lines 88-95)
Supervise ==
    /\ supervisor.pc = "idle"
    /\ supervisor' = [supervisor EXCEPT !.pc = "running", !.handler = "_interrupt",
                                        !.loop_running = TRUE]
    /\ UNCHANGED <<git, merge, template, builder>>
    /\ UNCHANGED <<coordVars, archVars, watchVars, pureVars>>

\* The loop reads a signal. (A signal that arrives when the handlers have
\* been removed is not handled by the loop and is left out.)
SignalArrives ==
    /\ supervisor.pc = "running"
    /\ supervisor.signals < MaxSignals
    /\ supervisor.handler # ""
    /\ supervisor' = [supervisor EXCEPT
                        !.signals = @ + 1,
                        !.ready = Append(@, Handle(supervisor.handler, 0))]
    /\ UNCHANGED <<git, merge, template, builder>>
    /\ UNCHANGED <<coordVars, archVars, watchVars, pureVars>>

\* A timer of _interrupt expires.
TimeoutExpires(t) ==
    /\ supervisor.pc = "running"
    /\ t \in supervisor.timers
    /\ supervisor' = [supervisor EXCEPT !.timers = @ \ {t},
                                        !.ready = Append(@, Handle("timeout", t))]
    /\ UNCHANGED <<git, merge, template, builder>>
    /\ UNCHANGED <<coordVars, archVars, watchVars, pureVars>>

\* The loop runs the first handle of its ready queue: a signal handler, the
\* _stop(True) of a timer, or the callback of run_until_complete that stops
\* the loop when the task is done, after which supervise returns.
RunHandle ==
    /\ supervisor.pc = "running"
    /\ supervisor.ready # <<>>
    /\ Head(supervisor.ready).fn # "step"
    /\ LET h == Head(supervisor.ready)
           s == [supervisor EXCEPT !.ready = Tail(@)]
       IN  supervisor' =
              CASE h.fn = "_interrupt" -> interrupt(s)
                [] h.fn = "_stop" -> stop(s, FALSE)
                [] h.fn = "timeout" -> stop(s, TRUE)
                [] OTHER -> Finally(s, "returned")
    /\ UNCHANGED <<git, merge, template, builder>>
    /\ UNCHANGED <<coordVars, archVars, watchVars, pureVars>>

\* The loop runs the step of the task that raises CancelledError in it; the
\* task ends with it, or handles it and goes on (as _count_cancellations of
\* test_util_async.py does).
TaskCancelled(ends) ==
    /\ supervisor.pc = "running"
    /\ supervisor.ready # <<>>
    /\ Head(supervisor.ready).fn = "step"
    /\ supervisor' = [supervisor EXCEPT
                        !.delivered = Append(@, supervisor.must_cancel),
                        !.must_cancel = "",
                        !.task = IF ends THEN "done" ELSE @,
                        !.ready = IF ends THEN Append(Tail(@), Handle("complete", 0))
                                  ELSE Tail(@)]
    /\ UNCHANGED <<git, merge, template, builder>>
    /\ UNCHANGED <<coordVars, archVars, watchVars, pureVars>>

\* The task finishes by itself.
TaskDone ==
    /\ supervisor.pc = "running"
    /\ supervisor.task = "running"
    /\ supervisor.must_cancel = ""
    /\ supervisor' = [supervisor EXCEPT !.task = "done",
                                        !.ready = Append(@, Handle("complete", 0))]
    /\ UNCHANGED <<git, merge, template, builder>>
    /\ UNCHANGED <<coordVars, archVars, watchVars, pureVars>>

\* The loop.stop that _stop scheduled (line 84) runs while the task is not
\* done: run_until_complete raises RuntimeError, which leaves supervise.
LoopStopped ==
    /\ supervisor.pc = "running"
    /\ supervisor.stop_handles > 0
    /\ supervisor.task = "running"
    /\ supervisor' = Finally(supervisor, "raised")
    /\ UNCHANGED <<git, merge, template, builder>>
    /\ UNCHANGED <<coordVars, archVars, watchVars, pureVars>>

\* ------------------------------------------------------------------------
\* Builder.get_build_tmp_dir and Builder.close (shelver/build/builder.py)
\* ------------------------------------------------------------------------
\* The builds of one Builder call get_build_tmp_dir (from build_archive and
\* from the provider's run_build), each from its own task; _create_tmp_dir
\* runs in the executor, beside the event loop.
BuilderCallers == 1..MaxBuilderCalls

\* self._build_tmp_dir = None
NoDir == <<>>

\* tempfile.mkdtemp(dir=base): a directory under base that did not exist,
\* the n-th one made.
mkdtemp(n) == <<"tmp", n>>

\* pc of a call: idle (not made), delay (at the await of delay(...), the
\* executor has not run _create_tmp_dir yet), created (the executor has
\* made the directory `made`, the task has not resumed), returned (with ret).
NoBuilderCall == [pc |-> "idle", made |-> NoDir, ret |-> NoDir]

\* keep_tmp, _build_tmp_dir; dirs: the temporary directories that exist on
\* disk; created: how many mkdtemp has made; closed: close() was called.
NewBuilder(keep_tmp) ==
    [keep_tmp |-> keep_tmp, build_tmp_dir |-> NoDir, dirs |-> {}, created |-> 0,
     closed |-> FALSE, calls |-> [c \in BuilderCallers |-> NoBuilderCall]]

\* Lines 93-97: the call up to its first suspension.
GetBuildTmpDir(c) ==
    /\ ~builder.closed
    /\ builder.calls[c].pc = "idle"
    /\ builder' = IF builder.build_tmp_dir # NoDir
                  THEN [builder EXCEPT !.calls[c].pc = "returned",
                                       !.calls[c].ret = builder.build_tmp_dir]
                  ELSE [builder EXCEPT !.calls[c].pc = "delay"]
    /\ UNCHANGED <<git, merge, template, supervisor>>
    /\ UNCHANGED <<coordVars, archVars, watchVars, pureVars>>

\* Lines 84-91: _create_tmp_dir in a worker of the executor.
CreateTmpDir(c) ==
    /\ builder.calls[c].pc = "delay"
    /\ builder' = [builder EXCEPT !.created = @ + 1,
                                  !.dirs = @ \cup {mkdtemp(builder.created + 1)},
                                  !.calls[c].pc = "created",
                                  !.calls[c].made = mkdtemp(builder.created + 1)]
    /\ UNCHANGED <<git, merge, template, supervisor>>
    /\ UNCHANGED <<coordVars, archVars, watchVars, pureVars>>

\* Lines 97-99: the task resumes with the result of the executor, stores it
\* and returns what is stored.
TmpDirCreated(c) ==
    /\ builder.calls[c].pc = "created"
    /\ builder' = [builder EXCEPT !.build_tmp_dir = builder.calls[c].made,
                                  !.calls[c].pc = "returned",
                                  !.calls[c].ret = builder.calls[c].made]
    /\ UNCHANGED <<git, merge, template, supervisor>>
    /\ UNCHANGED <<coordVars, archVars, watchVars, pureVars>>

\* shutil.rmtree(path): the directory and what is in it
rmtree(dirs, path) == dirs \ {path}

\* Lines 74-82: close(), at the end of the `with builder:` block of cli.py,
\* when no call of get_build_tmp_dir is under way.
Close ==
    /\ ~builder.closed
    /\ \A c \in BuilderCallers : builder.calls[c].pc \in {"idle", "returned"}
    /\ builder' = [builder EXCEPT
                      !.dirs = IF builder.build_tmp_dir # NoDir /\ ~builder.keep_tmp
                               THEN rmtree(@, builder.build_tmp_dir) ELSE @,
                      !.build_tmp_dir = NoDir,
                      !.closed = TRUE]
    /\ UNCHANGED <<git, merge, template, supervisor>>
    /\ UNCHANGED <<coordVars, archVars, watchVars, pureVars>>

UtilInit ==
    /\ git = NewGit
    /\ merge = NoMerge
    /\ template = NoTemplate
    /\ supervisor = NoSupervisor
    /\ builder = NewBuilder(TRUE)

\* ------------------------------------------------------------------------
\* The Coordinator as a state machine
\* ------------------------------------------------------------------------
CoordinatorInit(s, mb) ==
    /\ catalog = s.catalog
    /\ regions = s.regions
    /\ versions = s.versions
    /\ artifacts = s.artifacts
    /\ requested = s.requested
    /\ max_builds = mb
    /\ stopping = FALSE
    /\ builds = [k \in Keys |-> NoFuture]
    /\ pending = {}
    /\ build_counter = EffectiveMaxBuilds(mb)
    /\ all_finished = <<>>
    /\ tasks = [f \in FutIds |-> NoTask]
    /\ holding = {}
    /\ run_all = RunAllIdle
    /\ last_call = NoCall

Init ==
    /\ \E s \in Scenarios : \E mb \in 0..MaxMaxBuilds : CoordinatorInit(s, mb)
    /\ ArchiveInit(NoEntry)
    /\ WatcherInit
    /\ PureInit
    /\ UtilInit

Next ==
    \/ \E image \in Images : \E version \in RequestedVersions(image) :
          GetOrRunBuild(image, version)
    \/ \E f \in FutIds : TaskStart(f)
    \/ \E f \in FutIds : BaseDone(f)
    \/ \E f \in FutIds : AcquireSlot(f)
    \/ \E f \in FutIds : RunnerFailed(f)
    \/ \E f \in FutIds : WatcherCancelled(f)
    \/ \E f \in FutIds : \E ret \in {0, 1} : WatcherExit(f, ret)
    \/ \E f \in FutIds : WatcherKilled(f)
    \/ \E f \in FutIds : \E results \in ResultLists : RegisterResults(f, results)
    \/ \E f \in FutIds : OnBuildFinish(f)
    \/ RunAllStart
    \/ RunAllFinished
    \/ RunAllCancelled
    \/ RunAllGathered
    \/ RunAllForced

Spec == Init /\ [][Next]_vars

\* Every step of a Build Future that the event loop takes when it can: the
\* task runs when it is ready, the builder process ends, and a load of the
\* registry returns. The loop does not stop while one of them can be taken.
TaskStep(f) ==
    \/ TaskStart(f)
    \/ BaseDone(f)
    \/ AcquireSlot(f)
    \/ WatcherCancelled(f)
    \/ \E ret \in {0, 1} : WatcherExit(f, ret)
    \/ WatcherKilled(f)
    \/ \E results \in ResultLists : RegisterResults(f, results)

\* The runs with a limit on the parallel builds (max_builds >= 1)
LiveInit ==
    /\ \E s \in Scenarios : \E mb \in 1..MaxMaxBuilds : CoordinatorInit(s, mb)
    /\ ArchiveInit(NoEntry)
    /\ WatcherInit
    /\ PureInit
    /\ UtilInit

LiveSpec == LiveInit /\ [][Next]_vars /\ WF_vars(\E f \in FutIds : TaskStep(f))

\* What the event loop does by itself once it is ready: a step of a build
\* task, the done callbacks of a terminal future, and the resumption of
\* run_all when the future it awaits is done. Calls of get_or_run_build and
\* cancellations of run_all come from outside and need not happen.
LoopStep ==
    \/ \E f \in FutIds : TaskStep(f)
    \/ \E f \in FutIds : OnBuildFinish(f)
    \/ RunAllFinished
    \/ RunAllGathered

RunAllLiveSpec == LiveInit /\ [][Next]_vars /\ WF_vars(LoopStep)

\* ------------------------------------------------------------------------
\* The Archive cache as a state machine: the callers of get_or_build on one
\* cache key, the cache being empty or holding the archive already
\* ------------------------------------------------------------------------
ArchiveSpecInit ==
    /\ CoordinatorInit(CHOOSE s \in Scenarios : s.catalog = ChainCatalog, 0)
    /\ \E e \in {NoEntry, Cached} : ArchiveInit(e)
    /\ WatcherInit
    /\ PureInit
    /\ UtilInit

ArchiveNext ==
    \/ \E c \in Callers : GetOrBuild(c)
    \/ \E c \in Callers : Open(c)
    \/ \E c \in Callers : FlockExclusive(c)
    \/ \E c \in Callers : \E ok \in BOOLEAN : Build(c, ok)
    \/ \E c \in Callers : Move(c)
    \/ \E c \in Callers : ReturnBuilt(c)
    \/ \E c \in Callers : FlockShared(c)
    \/ \E c \in Callers : ReturnCached(c)

ArchiveSpec == ArchiveSpecInit /\ [][ArchiveNext]_vars

\* ------------------------------------------------------------------------
\* Watcher.run as a state machine: one builder process, its output, and the
\* cancellations of the task
\* ------------------------------------------------------------------------
WatcherSpecInit ==
    /\ CoordinatorInit(CHOOSE s \in Scenarios : s.catalog = ChainCatalog, 0)
    /\ ArchiveInit(NoEntry)
    /\ WatcherInit
    /\ PureInit
    /\ UtilInit

WatcherNext ==
    \/ WatcherRun
    \/ \E line \in Lines : ProcWrite(line)
    \/ \E code \in ExitCodes \cup {KilledCode} : ProcExit(code)
    \/ HandleStdout
    \/ IoEof
    \/ Cancel
    \/ \E lookup_error \in BOOLEAN : RunCancelled(lookup_error)
    \/ RunGathered
    \/ RunKilled

WatcherSpec == WatcherSpecInit /\ [][WatcherNext]_vars

\* ------------------------------------------------------------------------
\* handle_stdout over every output of at most MaxLines lines
\* ------------------------------------------------------------------------
Outputs == UNION {[1..n -> PackerOutput] : n \in 0..MaxLines}

ParseSpecInit ==
    /\ CoordinatorInit(CHOOSE s \in Scenarios : s.catalog = ChainCatalog, 0)
    /\ ArchiveInit(NoEntry)
    /\ WatcherInit
    /\ \E input \in Outputs : \E isatty \in BOOLEAN :
          parser = [NoParser EXCEPT !.input = input, !.isatty = isatty, !.pc = "reading"]
    /\ registry = NewRegistry
    /\ graph = NoGraph
    /\ flock = NewFile
    /\ UtilInit

ParseNext ==
    \/ ParseLine
    \/ ParseEof

ParseSpec == ParseSpecInit /\ [][ParseNext]_vars

\* ------------------------------------------------------------------------
\* A Registry and up to MaxCalls calls of register_artifact and
\* associate_artifact
\* ------------------------------------------------------------------------
RegistrySpecInit ==
    /\ CoordinatorInit(CHOOSE s \in Scenarios : s.catalog = ChainCatalog, 0)
    /\ ArchiveInit(NoEntry)
    /\ WatcherInit
    /\ PureInit
    /\ UtilInit

RegistryNext ==
    \/ \E artifact \in RegistryArtifacts : \E name \in RegisteredNames :
          RegisterArtifact(artifact, name)
    \/ \E artifact \in RegistryArtifacts : \E image \in AssociatedImages :
          \E version \in AssociatedVersions : AssociateArtifact(artifact, image, version)

RegistrySpec == RegistrySpecInit /\ [][RegistryNext]_vars

\* ------------------------------------------------------------------------
\* check_cycles on every catalog of the three images and topological_sort
\* on every graph of up to three nodes
\* ------------------------------------------------------------------------
CheckCyclesInputs ==
    {[NoGraph EXCEPT !.op = "check_cycles", !.pc = "called", !.catalog = c, !.keys = k] :
        c \in [Images -> BaseRefs], k \in ArtifactKeySets}

EdgesOver(nodes) ==
    UNION {[dests -> SUBSET SourceNames] : dests \in SUBSET nodes}

TopologicalSortInputs ==
    UNION {{[NoGraph EXCEPT !.op = "topological_sort", !.pc = "called", !.nodes = nodes,
                            !.edges = edges] : edges \in EdgesOver(nodes)} :
              nodes \in SUBSET Images}

GraphSpecInit ==
    /\ CoordinatorInit(CHOOSE s \in Scenarios : s.catalog = ChainCatalog, 0)
    /\ ArchiveInit(NoEntry)
    /\ WatcherInit
    /\ parser = NoParser
    /\ registry = NewRegistry
    /\ graph \in CheckCyclesInputs \cup TopologicalSortInputs
    /\ flock = NewFile
    /\ UtilInit

GraphNext ==
    \/ CheckCycles
    \/ TopologicalSort

GraphSpec == GraphSpecInit /\ [][GraphNext]_vars

\* ------------------------------------------------------------------------
\* The competing writers of one file, each behind a FileLock of its own
\* ------------------------------------------------------------------------
FlockSpecInit ==
    /\ CoordinatorInit(CHOOSE s \in Scenarios : s.catalog = ChainCatalog, 0)
    /\ ArchiveInit(NoEntry)
    /\ WatcherInit
    /\ PureInit
    /\ UtilInit

FlockNext ==
    \/ \E w \in Writers : Acquire(w)
    \/ \E w \in Writers : FlockGranted(w)
    \/ \E w \in Writers : \E i \in 1..DataLen : AcquireReturns(w, i)
    \/ \E w \in Writers : \E i \in 1..DataLen : WriteByte(w, i)
    \/ \E w \in Writers : Release(w)

FlockSpec == FlockSpecInit /\ [][FlockNext]_vars

\* The same writers, calling acquire() with a timeout that may expire
FlockTimeoutNext ==
    \/ FlockNext
    \/ \E w \in Writers : \E started \in BOOLEAN : AcquireTimeout(w, started)
    \/ \E w \in Writers : FlockGrantedLate(w)

FlockTimeoutSpec == FlockSpecInit /\ [][FlockTimeoutNext]_vars

\* ------------------------------------------------------------------------
\* The archive builds of one Builder for images whose archive options name
\* the same source directory, started in parallel
\* ------------------------------------------------------------------------
GitSpecInit ==
    /\ CoordinatorInit(CHOOSE s \in Scenarios : s.catalog = ChainCatalog, 0)
    /\ ArchiveInit(NoEntry)
    /\ WatcherInit
    /\ PureInit
    /\ \E revisions \in [Archives -> Revisions] :
          git = [NewGit EXCEPT
                   !.archives = [a \in Archives |->
                                   [NoGitArchive EXCEPT !.revision = revisions[a]]]]
    /\ merge = NoMerge
    /\ template = NoTemplate
    /\ supervisor = NoSupervisor
    /\ builder = NewBuilder(TRUE)

GitNext ==
    \/ \E a \in Archives : BuildArchive(a)
    \/ \E a \in Archives : RevParsed(a)
    \/ \E a \in Archives : WorktreeAdded(a)
    \/ \E a \in Archives : CheckedOut(a)
    \/ \E a \in Archives : SubmodulesUpdated(a)
    \/ \E a \in Archives : Tarred(a)
    \/ \E a \in Archives : Cleaned(a)
    \/ \E a \in Archives : Pruned(a)

GitSpec == GitSpecInit /\ [][GitNext]_vars

\* ------------------------------------------------------------------------
\* One call of deep_merge on every pair of operands
\* ------------------------------------------------------------------------
MergeSpecInit ==
    /\ CoordinatorInit(CHOOSE s \in Scenarios : s.catalog = ChainCatalog, 0)
    /\ ArchiveInit(NoEntry)
    /\ WatcherInit
    /\ PureInit
    /\ git = NewGit
    /\ \E left \in MergeOperands : \E right \in MergeOperands :
          merge = [NoMerge EXCEPT !.pc = "called", !.heap = MergeHeap,
                                  !.before = MergeHeap, !.left = left, !.right = right]
    /\ template = NoTemplate
    /\ supervisor = NoSupervisor
    /\ builder = NewBuilder(TRUE)

MergeNext == DeepMerge

MergeSpec == MergeSpecInit /\ [][MergeNext]_vars

\* ------------------------------------------------------------------------
\* One call of process_template on every document
\* ------------------------------------------------------------------------
TemplateSpecInit ==
    /\ CoordinatorInit(CHOOSE s \in Scenarios : s.catalog = ChainCatalog, 0)
    /\ ArchiveInit(NoEntry)
    /\ WatcherInit
    /\ PureInit
    /\ git = NewGit
    /\ merge = NoMerge
    /\ \E data \in Documents :
          template = [NoTemplate EXCEPT !.pc = "called", !.data = data]
    /\ supervisor = NoSupervisor
    /\ builder = NewBuilder(TRUE)

TemplateNext == ProcessTemplate

TemplateSpec == TemplateSpecInit /\ [][TemplateNext]_vars

\* ------------------------------------------------------------------------
\* An AsyncLoopSupervisor that supervises one task while up to MaxSignals
\* signals arrive
\* ------------------------------------------------------------------------
SupervisorSpecInit ==
    /\ CoordinatorInit(CHOOSE s \in Scenarios : s.catalog = ChainCatalog, 0)
    /\ ArchiveInit(NoEntry)
    /\ WatcherInit
    /\ PureInit
    /\ UtilInit

SupervisorNext ==
    \/ Supervise
    \/ SignalArrives
    \/ \E t \in 1..MaxSignals : TimeoutExpires(t)
    \/ RunHandle
    \/ \E ends \in BOOLEAN : TaskCancelled(ends)
    \/ TaskDone
    \/ LoopStopped

SupervisorSpec == SupervisorSpecInit /\ [][SupervisorNext]_vars

\* ------------------------------------------------------------------------
\* A Builder, with keep_tmp set or not, whose builds call get_build_tmp_dir
\* and which is closed in the end
\* ------------------------------------------------------------------------
BuilderSpecInit ==
    /\ CoordinatorInit(CHOOSE s \in Scenarios : s.catalog = ChainCatalog, 0)
    /\ ArchiveInit(NoEntry)
    /\ WatcherInit
    /\ PureInit
    /\ git = NewGit
    /\ merge = NoMerge
    /\ template = NoTemplate
    /\ supervisor = NoSupervisor
    /\ \E keep_tmp \in BOOLEAN : builder = NewBuilder(keep_tmp)

BuilderNext ==
    \/ \E c \in BuilderCallers : GetBuildTmpDir(c)
    \/ \E c \in BuilderCallers : CreateTmpDir(c)
    \/ \E c \in BuilderCallers : TmpDirCreated(c)
    \/ Close

BuilderSpec == BuilderSpecInit /\ [][BuilderNext]_vars

\* ------------------------------------------------------------------------
\* Properties of the Coordinator
\* ------------------------------------------------------------------------
BuildKey(image, version) ==
    <<image, IF version = NoVersion THEN CurrentVersion(image) ELSE version>>

Terminal(f) == tasks[f].pc = "done"

\* C1: get_or_run_build returns, for a key, always the one future of that
\* key (an omitted version meaning the current version); at most one future
\* is ever created per key, and an entry of builds is never replaced or
\* removed, whatever the state of its future.
C1_OneFuturePerKey ==
    /\ [](last_call.future # NoFuture =>
            last_call.future = builds[BuildKey(last_call.image, last_call.version)])
    /\ [](\A k \in Keys : Cardinality(FuturesOf(k)) <= 1)
    /\ [][\A k \in Keys : builds[k] # NoFuture => builds'[k] = builds[k]]_vars

\* A call with the version omitted returned the future of the current
\* version, which had already finished.
C1_Witness ==
    /\ last_call.future # NoFuture
    /\ last_call.version = NoVersion
    /\ last_call.future[2] = CurrentVersion(last_call.image)
    /\ Terminal(last_call.future)

\* C2: the builds inside the runner are never more than max_builds (999
\* when max_builds is unset or 0).
C2_BoundedParallelism ==
    Cardinality({f \in FutIds : InRunner(f)}) <= (IF max_builds = 0 THEN 999 ELSE max_builds)

\* The bound is reached: as many builds as max_builds are in the runner and
\* another one waits for a slot.
C2_Witness ==
    /\ max_builds # 0
    /\ Cardinality({f \in FutIds : InRunner(f)}) = max_builds
    /\ \E f \in FutIds : tasks[f].pc = "acquire"

\* C3: a build holds no slot while it resolves or awaits its base, and (the
\* catalogs being acyclic and every runner terminating) every scheduled
\* future becomes terminal: no build stays unfinished for ever.
C3_NoSlotDeadlock ==
    /\ [](\A f \in FutIds : tasks[f].pc \in {"start", "await_base"} => f \notin holding)
    /\ []<>(\A f \in FutIds : Created(f) => Terminal(f))

\* One slot, a chain three deep: the first build is in the runner, the
\* other two wait for their bases.
C3_Witness ==
    /\ max_builds = 1
    /\ \E f, g, h \in FutIds :
          /\ tasks[f].pc = "await_base" /\ tasks[f].waiting_on = g
          /\ tasks[g].pc = "await_base" /\ tasks[g].waiting_on = h
          /\ InRunner(h) /\ h \in holding

\* C4: the runner of an image whose base is a catalog image is called with
\* the registered artifact of the base.
C4_BaseRegisteredFirst ==
    \A f \in FutIds :
        (tasks[f].ran > 0 /\ base_with_version(catalog, f[1])[1] \in Images) =>
            /\ tasks[f].base_artifact # NoArtifact
            /\ <<tasks[f].base_artifact[1], tasks[f].base_artifact[2]>> \in versions
            /\ tasks[f].base_artifact[1] = base_with_version(catalog, f[1])[1]

\* C5: when run_all returns without having been cancelled, every future of
\* builds is terminal.
C5_RunAllReturnsWhenAllDone ==
    [][(run_all.pc # "returned" /\ run_all'.pc = "returned" /\ ~run_all'.cancelled) =>
          \A k \in Keys : builds'[k] # NoFuture => tasks'[builds'[k]].pc = "done"]_vars

\* Between the first cancellation of run_all and a second one (or the expiry
\* of cancel_timeout)
Graceful == run_all.cancelled /\ ~run_all.forced

\* C6 as stated: on the first cancellation stopping is set, every pending
\* future has received exactly one cancellation request, and no builder is
\* sent SIGKILL before a second cancellation or the timeout.
C6_ExactlyOneCancelRequest ==
    Graceful =>
        /\ stopping
        /\ \A f \in run_all.gathered : ~Done(f) => tasks[f].cancel_calls = 1
        /\ \A f \in FutIds : tasks[f].pc # "kill"

\* C6 amended: on the first cancellation stopping is set, every pending
\* future has received at least one cancellation request (an awaited base
\* also receives the ones its dependents hand on), and no builder is sent
\* SIGKILL before a second cancellation or the timeout.
C6_PoliteFirstCancel ==
    Graceful =>
        /\ stopping
        /\ \A f \in run_all.gathered : ~Done(f) => tasks[f].cancel_calls >= 1
        /\ \A f \in FutIds : tasks[f].pc # "kill"

\* A pending base that a pending dependent awaits got two requests from the
\* first cancellation, and its watcher has sent SIGINT only.
C6_Witness ==
    /\ Graceful
    /\ run_all.pc = "grace"
    /\ \E f, g \in run_all.gathered :
          /\ tasks[f].pc = "await_base" /\ tasks[f].waiting_on = g
          /\ tasks[g].pc = "watch2" /\ tasks[g].cancel_calls = 2

\* C7: after the first cancellation run_all completes, short of a second
\* cancellation or the timeout, only when every future that was pending at
\* the cancellation is terminal; in particular not while one of them is
\* still inside the runner, waiting for its builder process.
C7_GraceWaitsForAllPending ==
    [][(run_all.pc = "grace" /\ run_all'.pc \in {"returned", "raised"}
           /\ ~run_all'.forced) =>
          \A f \in run_all.gathered : ~InRunner(f)]_vars

\* C8: when run_all completes after a second cancellation or the timeout,
\* every future of builds is terminal; in particular none is still inside
\* the runner, waiting for its builder process.
C8_ForcedCompletionAllTerminal ==
    [][(run_all.pc = "grace" /\ run_all'.pc \in {"returned", "raised"}
           /\ run_all'.forced) =>
          \A k \in Keys :
              builds'[k] # NoFuture =>
                  tasks'[builds'[k]].pc \notin {"watch", "watch2", "kill"}]_vars

\* ------------------------------------------------------------------------
\* Properties of the Archive cache
\* ------------------------------------------------------------------------
\* The cache was empty when the calls began: an archive that was there is
\* never replaced or removed.
ColdCache == entry # Cached

NoBuildFailed == \A c \in Callers : ~callers[c].failed

AllReturned == \A c \in Callers : callers[c].pc = "returned"

\* C9: with the cache empty at first and build() succeeding, build() is
\* never invoked a second time, every call that returns gives the same path,
\* and once all calls have returned build() was invoked exactly once.
C9_BuildOnce ==
    (ColdCache /\ NoBuildFailed) =>
        /\ build_calls <= 1
        /\ \A c, d \in Callers :
              (callers[c].pc = "returned" /\ callers[d].pc = "returned") =>
                  (callers[c].ret = CachePath /\ callers[c].ret = callers[d].ret)
        /\ AllReturned => build_calls = 1

\* All the calls have returned: one of them built the archive, the others
\* found the file there.
C9_Witness ==
    /\ ColdCache /\ NoBuildFailed /\ AllReturned
    /\ build_calls = 1
    /\ Cardinality({c \in Callers : callers[c].branch = "exists"}) = MaxCallers - 1
    /\ Cardinality({c \in Callers : callers[c].branch = "created"}) = 1

\* C10: a caller that took the 'already exists' branch returns only when the
\* file at the path is the complete archive (stated here for the runs in
\* which no build() fails).
C10_ReaderSeesCompleteArchive ==
    NoBuildFailed =>
        \A c \in Callers :
            (callers[c].pc = "returned" /\ callers[c].branch = "exists") =>
                callers[c].seen = "complete"

\* C11: a call of get_or_build whose build() failed returns no path and
\* memoizes none (it raises), and its cache entry is unlinked.
C11_BuildFailureReported ==
    \A c \in Callers :
        callers[c].failed =>
            /\ callers[c].ret = ""
            /\ callers[c].path = ""
            /\ entry # Placeholder(c)

\* C12: what is at the archive's path is never empty or partial unless a
\* producer holds the exclusive lock on it.
C12_EmptyEntryIsLocked ==
    (entry # NoEntry /\ Content(entry) # "complete") => lock_ex[entry] # 0

\* ------------------------------------------------------------------------
\* Properties of the Watcher
\* ------------------------------------------------------------------------
Completed == watcher.pc \in {"returned", "raised"}

Occurrences(seq, x) == Cardinality({i \in 1..Len(seq) : seq[i] = x})

\* C13: the first cancellation sends SIGINT, once, and appends 'Canceled by
\* signal'; the streams are still read after it; SIGKILL is sent only on a
\* second cancellation and never before SIGINT; and after SIGKILL run ends
\* only with the process awaited and by passing the cancellation on.
C13_PoliteThenForceful ==
    /\ watcher.signals \in {<<>>, <<"SIGINT">>, <<"SIGINT", "SIGKILL">>}
    /\ watcher.delivered >= 1 =>
          /\ Occurrences(watcher.signals, "SIGINT") = 1
          /\ Occurrences(watcher.errors, CanceledBySignal) = 1
    /\ watcher.pc = "gather2" => watcher.io # "cancelled"
    /\ Occurrences(watcher.signals, "SIGKILL") = 1 => watcher.delivered >= 2
    /\ (Completed /\ Occurrences(watcher.signals, "SIGKILL") = 1) =>
          /\ watcher.waited
          /\ proc.state = "exited"
          /\ watcher.result.kind = "CancelledError"

\* C14: when run completes, however it does, the process has exited and run
\* has awaited it.
C14_ProcessAwaited ==
    Completed => (proc.state = "exited" /\ watcher.waited)

RECURSIVE ErrorsOf(_, _)
ErrorsOf(lines, n) ==
    IF n = 0 THEN <<>>
    ELSE IF lines[n].type = "error" THEN Append(ErrorsOf(lines, n - 1), ErrorData(n))
    ELSE ErrorsOf(lines, n - 1)

IsLineError(e) == e # CanceledBySignal

\* C15: a run that ends on the exit code of the process returns the
\* accumulated artifact list when the code is 0, and otherwise raises
\* PackerError with that code and with the errors collected, those of the
\* stdout lines in the order of the lines; it returns no artifact list for
\* a code other than 0.
C15_ExitCodeDecides ==
    /\ watcher.result.kind = "returned" =>
          /\ proc.state = "exited" /\ proc.returncode = 0
          /\ watcher.result.artifacts = watcher.artifacts
    /\ watcher.result.kind = "PackerError" =>
          /\ proc.state = "exited" /\ proc.returncode # 0
          /\ watcher.result.exitcode = proc.returncode
          /\ watcher.result.errors = watcher.errors
          /\ SelectSeq(watcher.result.errors, IsLineError)
                = ErrorsOf(stdout.written, Len(stdout.written))
    /\ (Completed /\ watcher.result.kind \notin
                         {"CancelledError", "ValueError", "ProcessLookupError"}) =>
          watcher.result.kind = (IF proc.returncode = 0 THEN "returned" ELSE "PackerError")

\* The builder exited with code 1 after a cancellation that came between two
\* error lines: PackerError carries the three errors in that order.
C15_Witness ==
    /\ watcher.result.kind = "PackerError"
    /\ watcher.result.exitcode = 1
    /\ watcher.result.errors = <<ErrorData(1), CanceledBySignal, ErrorData(3)>>

\* ------------------------------------------------------------------------
\* Properties of the Coordinator: scheduling, stopping, versions and bases
\* ------------------------------------------------------------------------
\* How many times builder.run_build was called for key k
RECURSIVE RunsOf(_, _)
RunsOf(k, n) == IF n = 0 THEN 0 ELSE tasks[<<k[1], k[2], n>>].ran + RunsOf(k, n - 1)

\* The key of the base of an image: base_with_version, the current version
\* standing for a version left out.
BaseKey(image) ==
    LET b == base_with_version(catalog, image)
    IN  <<b[1], IF b[2] = NoVersion /\ b[1] \in Images THEN CurrentVersion(b[1]) ELSE b[2]>>

\* C16: builder.run_build is called at most once for each (image, version),
\* and a build whose base already has its artifact registered creates no
\* future for the base when it resolves it.
C16_RunnerOncePerKey ==
    /\ [](\A k \in Keys : RunsOf(k, MaxFuturesPerKey) <= 1)
    /\ [][\A f \in FutIds :
             (tasks[f].pc = "start" /\ tasks'[f].pc # "start" /\ BaseKey(f[1]) \in versions) =>
                 builds'[BaseKey(f[1])] = builds[BaseKey(f[1])]]_vars

\* Two builds wait for the one future of the base they share, whose runner
\* was called once.
C16_Witness ==
    \E f, g, h \in FutIds :
        /\ f # g
        /\ tasks[f].pc = "await_base" /\ tasks[f].waiting_on = h
        /\ tasks[g].pc = "await_base" /\ tasks[g].waiting_on = h
        /\ InRunner(h) /\ RunsOf(tasks[h].key, MaxFuturesPerKey) = 1

\* C17: once stopping is set no future is added to builds or pending; a call
\* of get_or_run_build for a key without a future fails with
\* InvalidStateError and changes neither, and a call for a key with a future
\* returns that future.
C17_NoNewBuildsWhenStopping ==
    [][stopping =>
          /\ builds' = builds
          /\ pending' \subseteq pending
          /\ last_call'.image # "" =>
                LET k == BuildKey(last_call'.image, last_call'.version)
                IN  IF builds[k] = NoFuture
                    THEN /\ last_call'.error = "InvalidStateError"
                         /\ last_call'.future = NoFuture
                         /\ pending' = pending
                    ELSE /\ last_call'.error = ""
                         /\ last_call'.future = builds[k]]_vars

\* A call made while the coordinator is stopping was refused, while a build
\* scheduled before is still in the runner.
C17_Witness ==
    /\ stopping
    /\ last_call.error = "InvalidStateError"
    /\ builds[BuildKey(last_call.image, last_call.version)] = NoFuture
    /\ \E f \in FutIds : InRunner(f)

\* C18: a build for a version other than the image's current one never
\* holds a slot, never reaches the runner and, unless it is cancelled before
\* its first step, ends with ConfigurationError; no artifact is ever
\* registered for such a version, so a build whose base is pinned to one
\* runs only with the artifact that was registered beforehand.
C18_OnlyCurrentVersionBuilt ==
    /\ [](\A f \in FutIds :
            f[2] # CurrentVersion(f[1]) =>
                /\ tasks[f].ran = 0
                /\ f \notin holding
                /\ Done(f) => tasks[f].outcome \in {"ConfigurationError", "cancelled"})
    /\ [][\A k \in versions' \ versions : k[2] = CurrentVersion(k[1])]_vars
    /\ [](\A f \in FutIds :
            LET b == BaseKey(f[1])
            IN  (tasks[f].ran > 0 /\ b[1] \in Images /\ b[2] # CurrentVersion(b[1])) =>
                    /\ tasks[f].base_artifact = ManagedArtifact(b[1], b[2])
                    /\ b \in versions
                    /\ builds[b] = NoFuture)

\* The build of a pinned, older version of a base ended with
\* ConfigurationError, and the build that asked for it failed in turn.
C18_Witness ==
    \E f, g \in FutIds :
        /\ g[2] # CurrentVersion(g[1])
        /\ BaseKey(f[1]) = tasks[g].key
        /\ Done(g) /\ tasks[g].outcome = "ConfigurationError"
        /\ Done(f) /\ tasks[f].ran = 0

\* The resolution of the base of f failed with a core error: the base is
\* not a catalog image and no artifact has its name, or it is a catalog
\* image whose build ended with a core error.
BaseResolutionFailed(f) ==
    LET b == BaseKey(f[1])
    IN  /\ f[2] = CurrentVersion(f[1])
        /\ b[1] # ""
        /\ IF b[1] \in Images
           THEN /\ b \notin versions
                /\ builds[b] # NoFuture
                /\ Done(builds[b])
                /\ IsShelverError(tasks[builds[b]].outcome)
           ELSE b[1] \notin artifacts

\* C19: a build whose base resolution failed with a core error ends with the
\* wrapping ShelverError, without a slot and without its runner called.
C19_BaseFailureWrapped ==
    \A f \in FutIds :
        (Done(f) /\ tasks[f].outcome # "cancelled" /\ BaseResolutionFailed(f)) =>
            /\ tasks[f].outcome = "ShelverError"
            /\ tasks[f].ran = 0
            /\ f \notin holding

\* C20: a build whose base is not a catalog image runs with the artifact
\* registered under the base's name, no build being scheduled for it; when
\* there is none it ends with the ShelverError that wraps
\* UnknownArtifactError, and its runner is not called.
C20_UnmanagedBase ==
    \A f \in FutIds :
        LET b == BaseKey(f[1])
        IN  (b[1] # "" /\ b[1] \notin Images /\ f[2] = CurrentVersion(f[1])) =>
                IF b[1] \in artifacts
                THEN tasks[f].ran > 0 => tasks[f].base_artifact = ExternalArtifact(b[1])
                ELSE /\ tasks[f].ran = 0
                     /\ (Done(f) /\ tasks[f].outcome # "cancelled") =>
                            tasks[f].outcome = "ShelverError"

\* C21: the result list of a successful Build Future holds only artifacts
\* that load_artifact_by_id registered: each element is an artifact of the
\* built image and version that the versions index has, and a result of
\* another region or a malformed one adds no element.
C21_ResultListIsRegistered ==
    \A f \in FutIds :
        (Done(f) /\ tasks[f].outcome = "success") =>
            \A i \in 1..Len(tasks[f].result) :
                /\ tasks[f].result[i] # NoArtifact
                /\ tasks[f].result[i] = ManagedArtifact(tasks[f].key[1], tasks[f].key[2])
                /\ tasks[f].key \in versions

\* The calls of the subscriber among the done callbacks that ran for f
RECURSIVE SubscriberCalls(_)
SubscriberCalls(calls) ==
    IF calls = <<>> THEN <<>>
    ELSE IF Head(calls).fn = "build_done"
         THEN <<Head(calls).args>> \o SubscriberCalls(Tail(calls))
         ELSE SubscriberCalls(Tail(calls))

\* C22: when the done callbacks of a Build Future have run, the subscriber was
\* called exactly once, as fn(image, version, future), the future was
\* terminal, and the call came after _on_build_finish; no later step calls it
\* again. This holds for the futures of get_or_run_build calls from outside
\* and for those made for a base.
C22_SubscriberCalledOnce ==
    [][\A f \in FutIds :
          /\ tasks[f].called # <<>> => tasks'[f].called = tasks[f].called
          /\ tasks'[f].called # <<>> =>
                /\ Done(f)
                /\ tasks'[f].pc = "done"
                /\ SubscriberCalls(tasks'[f].called) = <<<<f[1], f[2], f>>>>
                /\ tasks'[f].called[1] = Call("_on_build_finish", <<f>>)
                /\ tasks'[f].called[Len(tasks'[f].called)].fn = "build_done"
          /\ tasks'[f].finish_cb => tasks'[f].called # <<>>]_vars

\* The subscriber was called for a requested build and for the build of its
\* base, one that succeeded and one that did not.
C22_Witness ==
    \E f, g \in FutIds :
        /\ f[1] = "server" /\ g[1] = "fedora"
        /\ <<f[1], NoVersion>> \in requested
        /\ <<g[1], NoVersion>> \notin requested /\ <<g[1], g[2]>> \notin requested
        /\ tasks[f].called # <<>> /\ tasks[g].called # <<>>
        /\ tasks[g].outcome = "success"
        /\ tasks[f].outcome \notin {"success", "pending"}

\* The artifact lines among the lines read so far
ArtifactLinesRead ==
    {n \in 1..parser.read : parser.input[n].kind = "artifact"}

\* The lines read that set the key k of the entry at index i
Setters(i, k) ==
    {n \in ArtifactLinesRead :
        /\ parser.input[n].index = i
        /\ \/ parser.input[n].key = "id" /\ k \in {<<"region">>, <<"id">>}
           \/ parser.input[n].key \notin {"id", "end"} /\ k = <<parser.input[n].key>>}

Last(S) == CHOOSE n \in S : \A m \in S : m <= n

\* What the line o stores under the key k
Stored(o, k) ==
    IF o.key = "id" THEN (IF k = <<"region">> THEN o.values[1] ELSE o.values[2])
    ELSE IF Len(o.values) = 1 THEN o.values[1]
    ELSE o.values

ArtifactKeys == {<<"region">>, <<"id">>, <<"end">>, <<"string">>, <<"files">>}

\* C23: after any sequence of well-formed lines no line has raised, the
\* artifact list has one entry per index up to the largest INDEX read, and
\* the entry at an index holds exactly the keys that the lines read for that
\* index set: region and id for an id line (the value split at its first
\* ':'), nothing for end, and for another key the single value or the list
\* of values; of two lines for one key the later one counts.
C23_ArtifactList ==
    /\ parser.pc # "failed"
    /\ Len(parser.artifacts) =
          IF ArtifactLinesRead = {} THEN 0
          ELSE 1 + parser.input[CHOOSE n \in ArtifactLinesRead :
                                    \A m \in ArtifactLinesRead :
                                        parser.input[m].index <= parser.input[n].index].index
    /\ \A i \in 0..(Len(parser.artifacts) - 1) :
          /\ DOMAIN parser.artifacts[i + 1] = {k \in ArtifactKeys : Setters(i, k) # {}}
          /\ \A k \in DOMAIN parser.artifacts[i + 1] :
                parser.artifacts[i + 1][k] = Stored(parser.input[Last(Setters(i, k))], k)

\* Three lines for index 1 were read: entry 0 was created empty, and entry 1
\* holds the region and id of 'r:a:b' and the list of the two files.
C23_Witness ==
    /\ parser.read = 3
    /\ Len(parser.artifacts) = 2
    /\ DOMAIN parser.artifacts[1] = {}
    /\ DOMAIN parser.artifacts[2] = {<<"region">>, <<"id">>, <<"files">>}
    /\ parser.artifacts[2][<<"region">>] = <<"r">>
    /\ parser.artifacts[2][<<"id">>] = <<"a", Colon, "b">>
    /\ parser.artifacts[2][<<"files">>] = <<<<"x">>, <<"y">>>>
    /\ parser.input[3].key = "end"

\* s ends with x
EndsWith(s, x) ==
    Len(s) >= Len(x) /\ SubSeq(s, Len(s) - Len(x) + 1, Len(s)) = x

\* C24: the step that handles a line which is not TIMESTAMP,TARGET,TYPE,DATA
\* writes one message that ends with the line as it was read, the step that
\* handles a ui line writes one message that ends with its MESSAGE, commas
\* restored (the newlines that end the message aside); neither changes the
\* artifact list or the error list.
C24_MessagesForwarded ==
    [][(parser'.read = parser.read + 1
            /\ parser.input[parser'.read].kind \in {"text", "ui"}) =>
          LET o == parser.input[parser'.read]
          IN  /\ parser'.artifacts = parser.artifacts
              /\ parser'.errors = parser.errors
              /\ parser'.pc = parser.pc
              /\ Len(parser'.msg_stream) = Len(parser.msg_stream) + 1
              /\ SubSeq(parser'.msg_stream, 1, Len(parser.msg_stream)) = parser.msg_stream
              /\ EndsWith(rstrip(parser'.msg_stream[Len(parser'.msg_stream)]),
                          IF o.kind = "text" THEN rstrip(Format(o)) ELSE o.text)]_vars

\* An error line, a line of plain text and the ui line of 'hello, world'
\* were read.
C24_Witness ==
    /\ parser.read = 3
    /\ parser.errors # <<>>
    /\ Len(parser.msg_stream) = 2
    /\ \E m \in 1..2 : EndsWith(parser.msg_stream[m], <<"hello", Comma, " world", Newline>>)
    /\ \E m \in 1..2 : EndsWith(rstrip(parser.msg_stream[m]), <<"==> Builds finished.">>)

\* The step is a call of op on the registry
Called(op) == registry'.calls = registry.calls + 1 /\ registry'.last.op = op

\* The key an artifact is registered under: the given name, else
\* 'image:version' for a managed artifact and the name for an unmanaged one
DerivedKey(artifact, name) ==
    IF name # <<>> THEN name
    ELSE IF artifact.image # ""
    THEN <<artifact.image, Colon, VersionText[artifact.version]>>
    ELSE artifact.name

\* C25: a call of register_artifact whose key is free binds the key and the
\* provider id to the artifact, so that get_artifact gives it for both, and
\* leaves the other keys alone; one whose key holds the same artifact
\* returns and changes nothing; one whose key holds another artifact raises
\* ValueError and changes nothing.
C25_RegisterArtifact ==
    [][Called("register_artifact") =>
          LET a == registry'.last.artifact
              key == DerivedKey(a, registry'.last.name)
          IN  /\ registry'.versions = registry.versions
              /\ key \notin DOMAIN registry.artifacts =>
                    /\ registry'.last.error = ""
                    /\ registry_get_artifact(registry', key) = a
                    /\ registry_get_artifact(registry', a.id) = a
                    /\ DOMAIN registry'.artifacts = DOMAIN registry.artifacts \cup {key, a.id}
                    /\ \A k \in DOMAIN registry.artifacts \ {key, a.id} :
                          registry'.artifacts[k] = registry.artifacts[k]
              /\ (key \in DOMAIN registry.artifacts /\ registry.artifacts[key] = a) =>
                    /\ registry'.last.error = ""
                    /\ registry'.artifacts = registry.artifacts
              /\ (key \in DOMAIN registry.artifacts /\ registry.artifacts[key] # a) =>
                    /\ registry'.last.error = "ValueError"
                    /\ registry'.artifacts = registry.artifacts]_vars

\* An artifact of fedora 25 is registered under 'fedora:25' and its id, it
\* was registered a second time, and the other artifact of fedora 25 was
\* refused.
C25_Witness ==
    /\ registry.calls = 3
    /\ registry.last.op = "register_artifact"
    /\ registry.last.error = "ValueError"
    /\ registry.last.artifact.obj = 2
    /\ DOMAIN registry.artifacts = {<<"fedora", Colon, "25">>, <<"ami-1">>}
    /\ \A k \in DOMAIN registry.artifacts : registry.artifacts[k].obj = 1

\* C26: a call of associate_artifact that returns has bound the image and
\* version (those of the artifact when not given) to the artifact, so that
\* get_image_artifact gives it, also without a version when the version is
\* the current one; a call for an image and version that have an artifact
\* raises; and no step changes or removes an association there is.
C26_AssociateArtifact ==
    [][/\ \A k \in DOMAIN registry.versions :
             k \in DOMAIN registry'.versions /\ registry'.versions[k] = registry.versions[k]
       /\ Called("associate_artifact") =>
             LET a == registry'.last.artifact
                 image == IF registry'.last.image # "" THEN registry'.last.image ELSE a.image
                 version == IF registry'.last.version # NoVersion THEN registry'.last.version
                            ELSE a.version
             IN  /\ registry'.artifacts = registry.artifacts
                 /\ registry'.last.error = "" =>
                       /\ DOMAIN registry'.versions =
                              DOMAIN registry.versions \cup {<<image, version>>}
                       /\ get_image_artifact(registry', image, version) = a
                       /\ version = CurrentVersion(image) =>
                             get_image_artifact(registry', image, NoVersion) = a
                 /\ registry'.last.error # "" => registry'.versions = registry.versions
                 /\ <<image, version>> \in DOMAIN registry.versions =>
                       registry'.last.error = "ValueError"]_vars

\* fedora 25 has the first artifact, and associating the second one with it
\* was refused.
C26_Witness ==
    /\ registry.last.op = "associate_artifact"
    /\ registry.last.error = "ValueError"
    /\ registry.last.artifact.obj = 2
    /\ registry.last.image = ""
    /\ DOMAIN registry.versions = {<<"fedora", 25>>}
    /\ get_image_artifact(registry, "fedora", NoVersion).obj = 1

\* The base of an image of the catalog, when it is an image of the catalog
BaseImage(c, i) == base_with_version(c, i)[1]

\* The images that i is built on, through bases that are catalog images
RECURSIVE BasesOf(_, _, _)
BasesOf(c, i, n) ==
    IF n = 0 \/ BaseImage(c, i) \notin DOMAIN c THEN {}
    ELSE {BaseImage(c, i)} \cup BasesOf(c, BaseImage(c, i), n - 1)

HasCycle(c) == \E i \in DOMAIN c : i \in BasesOf(c, i, Cardinality(DOMAIN c))

AllBasesResolve(c, keys) ==
    \A i \in DOMAIN c : BaseImage(c, i) \in {""} \cup DOMAIN c \cup keys

\* C27: check_cycles returns for a catalog without cycles whose bases all
\* name a catalog image or a registered artifact, and raises
\* ConfigurationError for a catalog whose bases all resolve and whose
\* references between catalog images make a cycle.
C27_CheckCycles ==
    (graph.op = "check_cycles" /\ graph.pc = "done"
        /\ AllBasesResolve(graph.catalog, graph.keys)) =>
            graph.error = IF HasCycle(graph.catalog) THEN "ConfigurationError" ELSE ""

\* C28: check_cycles raises UnknownImageError for a catalog in which the
\* base of some image names neither a catalog image nor a registered
\* artifact.
C28_UnknownBase ==
    (graph.op = "check_cycles" /\ graph.pc = "done"
        /\ ~AllBasesResolve(graph.catalog, graph.keys)) =>
            graph.error = "UnknownImageError"

\* server is based on 'whatever', which nothing defines, while 'vpn', the
\* base of fedora, is a registered artifact; the call raised.
C28_Witness ==
    /\ graph.op = "check_cycles" /\ graph.pc = "done"
    /\ graph.catalog["server"] = <<"whatever", NoVersion>>
    /\ graph.catalog["fedora"] = <<"vpn", NoVersion>>
    /\ graph.keys = {"vpn"}
    /\ graph.error = "UnknownImageError"

\* The sources of a node
Sources(n) == IF n \in DOMAIN graph.edges THEN graph.edges[n] ELSE {}

\* The nodes that can be ordered: those whose sources can all be ordered
RECURSIVE Orderable(_)
Orderable(R) ==
    LET more == R \cup {n \in graph.nodes : Sources(n) \subseteq R}
    IN  IF more = R THEN R ELSE Orderable(more)

\* The level of a node in a result
LevelOf(result, n) == CHOOSE l \in 1..Len(result) : n \in result[l]

\* C29: on a graph without a cycle and without a source outside the nodes
\* topological_sort returns non-empty, pairwise disjoint levels that hold
\* every node once, the sources of a node in levels before its own; on
\* any other graph it raises TopologicalSortError with the edges that could
\* not be resolved: the nodes that cannot be ordered, each with those of
\* its sources that cannot be ordered.
C29_TopologicalSort ==
    (graph.op = "topological_sort" /\ graph.pc = "done") =>
        LET ordered == Orderable({})
        IN  IF ordered = graph.nodes
            THEN /\ graph.error = ""
                 /\ \A l \in 1..Len(graph.result) : graph.result[l] # {}
                 /\ \A l, m \in 1..Len(graph.result) :
                       l # m => graph.result[l] \cap graph.result[m] = {}
                 /\ UNION {graph.result[l] : l \in 1..Len(graph.result)} = graph.nodes
                 /\ \A n \in graph.nodes : \A s \in Sources(n) :
                       LevelOf(graph.result, s) < LevelOf(graph.result, n)
            ELSE /\ graph.error = "TopologicalSortError"
                 /\ graph.cycles = [d \in graph.nodes \ ordered |-> Sources(d) \ ordered]

\* The writers between the return of acquire() and release()
InCriticalSection == {w \in Writers : flock.writers[w].pc = "writing"}

\* C30: no two writers are between the return of their exclusive acquire()
\* and their release() at the same time, the writer that is there is the
\* one whose open file holds the lock, and once every writer has released
\* the file holds the bytes of one writer, as that writer wrote them.
C30_ExclusiveLock ==
    /\ Cardinality(InCriticalSection) <= 1
    /\ \A w \in InCriticalSection : flock.holder = w
    /\ (\A w \in Writers : flock.writers[w].pc = "done") =>
          \E w \in Writers : flock.content = Data(w)

\* Every writer has released the lock, the first one having written last.
C30_Witness ==
    /\ \A w \in Writers : flock.writers[w].pc = "done"
    /\ flock.content = Data(1)
    /\ flock.holder = 0

\* The writers whose acquire() has failed with TimeoutError
TimedOut == {w \in Writers : flock.writers[w].pc \in {"timed_out", "cancelled", "abandoned"}}

\* C31: an acquire() whose timeout expired before the lock was granted
\* leaves no side effect: the file of a timed-out caller never holds the
\* lock afterwards (so that the lock stays free for the other waiters).
C31_TimeoutNoSideEffect ==
    \A w \in TimedOut : flock.holder # w

\* The builds between the start of their 'git worktree add' and the end of
\* their 'git worktree prune' (or of the rmtree after which it is skipped)
InWorktreeSequence ==
    {a \in Archives : git.archives[a].pc \in
        {"worktree add", "checkout", "submodule update", "tar", "rmtree", "worktree prune"}}

\* C32: the worktree-add ... worktree-prune sequences of the archive builds
\* of one source directory never interleave, and no two builds use the same
\* worktree path at the same time: at most one build is inside its sequence.
C32_WorktreeSerialized ==
    \A a, b \in InWorktreeSequence : work_tree(a) = work_tree(b) => a = b

\* Python's == on two values of a heap: scalars by value, an object and
\* itself, mappings by their items (two OrderedDicts in order too), sets by
\* their elements, lists with lists and tuples with tuples element by
\* element
RECURSIVE PyEq(_, _, _)
PyEq(h, x, y) ==
    IF ~IsRef(x) \/ ~IsRef(y) THEN x = y
    ELSE IF x = y THEN TRUE
    ELSE LET X == Deref(h, x)
             Y == Deref(h, y)
         IN  IF X.type \in MappingTypes /\ Y.type \in MappingTypes
             THEN /\ Len(X.items) = Len(Y.items)
                  /\ \A i \in 1..Len(X.items) :
                        /\ HasKey(Y.items, X.items[i][1])
                        /\ PyEq(h, X.items[i][2], GetItem(Y.items, X.items[i][1]))
                  /\ (X.type = "OrderedDict" /\ Y.type = "OrderedDict") =>
                        \A i \in 1..Len(X.items) : X.items[i][1] = Y.items[i][1]
             ELSE IF X.type \in SetTypes /\ Y.type \in SetTypes
             THEN /\ \A i \in 1..Len(X.items) : \E j \in 1..Len(Y.items) :
                        PyEq(h, X.items[i], Y.items[j])
                  /\ \A j \in 1..Len(Y.items) : \E i \in 1..Len(X.items) :
                        PyEq(h, X.items[i], Y.items[j])
             ELSE IF X.type = Y.type /\ X.type \in {"list", "tuple"}
             THEN /\ Len(X.items) = Len(Y.items)
                  /\ \A i \in 1..Len(X.items) : PyEq(h, X.items[i], Y.items[i])
             ELSE FALSE

\* C33: for every mapping a, deep_merge(a, {}) == a and
\* deep_merge({}, a) == a; when the left operand is a mapping, a set or an
\* ordered sequence the result is a container of the type of the left
\* operand; and every object that existed when deep_merge was called is
\* unchanged when it returns or raises.
C33_DeepMerge ==
    merge.pc = "done" =>
        /\ (IsMapping(merge.before, merge.left) /\ merge.right = EmptyDictId) =>
               merge.error = "" /\ PyEq(merge.heap, merge.value, merge.left)
        /\ (merge.left = EmptyDictId /\ IsMapping(merge.before, merge.right)) =>
               merge.error = "" /\ PyEq(merge.heap, merge.value, merge.right)
        /\ (IsRef(merge.left) /\ merge.error = "") =>
               /\ IsRef(merge.value)
               /\ Deref(merge.heap, merge.value).type = Deref(merge.before, merge.left).type
        /\ SubSeq(merge.heap, 1, Len(merge.before)) = merge.before

\* deep_merge of the dict that holds a list with itself has returned a new
\* dict that holds a new list
C33_Witness ==
    /\ merge.pc = "done"
    /\ merge.left = "#3" /\ merge.right = "#3"
    /\ merge.error = ""
    /\ merge.value = "#12"
    /\ merge.heap[12] = Obj("dict", << <<"a", "2">>, <<"b", "#13">> >>)
    /\ merge.heap[13] = Obj("list", << "1", "1" >>)

\* Every leaf of data that is a scalar and no string is, unchanged, at the
\* same place of out
RECURSIVE ScalarsPreserved(_, _)
ScalarsPreserved(data, out) ==
    CASE data.type \in {"dict", "list"} ->
            /\ out.type = data.type
            /\ out.keys = data.keys
            /\ Len(out.items) = Len(data.items)
            /\ \A i \in 1..Len(data.items) : ScalarsPreserved(data.items[i], out.items[i])
      [] data.type = "str" -> TRUE
      [] OTHER -> out = data

\* C34: process_template recurses through mappings and sequences, and every
\* leaf that is an integer, a float, a boolean or null is unchanged at the
\* same position of the document it returns.
C34_ScalarsPassThrough ==
    template.pc = "done" => ScalarsPreserved(template.data, template.result)

\* C35: supervise delivers no cancellation to the task when no signal
\* arrives; the first cancellation is the one of the first signal; a second
\* cancellation is caused by a second signal or by the expiry of the
\* timeout, and timed_out is true exactly when it was the timeout; the loop
\* is not running when supervise has returned.
C35_Supervise ==
    /\ supervisor.signals = 0 => supervisor.delivered = <<>>
    /\ Len(supervisor.delivered) >= 1 => supervisor.delivered[1] = "signal"
    /\ Len(supervisor.delivered) >= 2 =>
          (supervisor.timed_out <=> supervisor.delivered[2] = "timeout")
    /\ supervisor.pc \in {"returned", "raised"} => ~supervisor.loop_running

\* C36: a build holds a slot of build_counter exactly while it is inside the
\* runner: the slot is given back on every way out of the runner (success,
\* PackerError, any other exception, cancellation), once, and a build that
\* is cancelled while it waits for a slot neither holds nor releases one.
\* The free slots and the builds inside the runner add up to the configured
\* maximum, so that with no build inside the runner every slot is free.
C36_SlotReleased ==
    /\ holding = {f \in FutIds : InRunner(f)}
    /\ build_counter + Cardinality(holding) = EffectiveMaxBuilds(max_builds)
    /\ (\A f \in FutIds : ~InRunner(f)) => build_counter = EffectiveMaxBuilds(max_builds)

\* With one slot configured, the slot is free after one build succeeded,
\* one was cancelled inside the runner and one was cancelled before it got
\* the slot.
C36_Witness ==
    /\ max_builds = 1
    /\ build_counter = 1
    /\ \E f, g, e \in FutIds :
          /\ Done(f) /\ tasks[f].outcome = "cancelled" /\ tasks[f].ran > 0
          /\ Done(g) /\ tasks[g].outcome = "cancelled" /\ tasks[g].ran = 0
          /\ Done(e) /\ tasks[e].outcome = "success"

\* The futures of builds whose _on_build_finish has not run yet
BookkeepingDue == {f \in FutIds : (\E k \in Keys : builds[k] = f) /\ ~tasks[f].finish_cb}

\* C37: pending is always the set of the futures of builds whose
\* _on_build_finish has not run yet, also for the builds scheduled after
\* all_finished was set; all_finished is set at most once, at a step that
\* leaves pending empty, and to the builds of that moment.
C37_PendingBookkeeping ==
    /\ [](pending = BookkeepingDue)
    /\ [][/\ all_finished # <<>> => all_finished' = all_finished
          /\ (all_finished = <<>> /\ all_finished' # <<>>) =>
                (pending # {} /\ pending' = {} /\ all_finished' = <<builds>>)]_vars

\* C38: a run_all that is waiting for the builds completes in the end, the
\* builds that were scheduled terminating, also when no build was ever
\* scheduled on the Coordinator.
C38_RunAllReturns == (run_all.pc = "wait") ~> (run_all.pc \in {"returned", "raised"})

\* C39: whatever the interleaving of the builds, a Builder makes at most one
\* temporary directory, every call of get_build_tmp_dir returns the same
\* path, and after close() none of the directories it made is left unless
\* keep_tmp is set.
C39_OneTmpDir ==
    /\ builder.created <= 1
    /\ \A c, d \in BuilderCallers :
          (builder.calls[c].pc = "returned" /\ builder.calls[d].pc = "returned") =>
              builder.calls[c].ret = builder.calls[d].ret
    /\ (builder.closed /\ ~builder.keep_tmp) => builder.dirs = {}

\* C40: a key of the artifacts index (a name, an 'image:version' key or a
\* provider id) that is bound to an artifact stays bound to that artifact
\* over every call of register_artifact, whether the call returns or raises,
\* also when the provider id of the artifact being registered is a key that
\* is bound already.
C40_KeysNeverRebound ==
    [][Called("register_artifact") =>
          \A k \in DOMAIN registry.artifacts :
              /\ k \in DOMAIN registry'.artifacts
              /\ registry'.artifacts[k] = registry.artifacts[k]]_vars

====
